---- MODULE Spec2Model ----
(***************************************************************************)
(* Luminara problem-submission pipeline.                                   *)
(*                                                                         *)
(* Server side: the submit-problem edge function (InferenceHandler).       *)
(* Client side: the useProblemSubmission hook (SubmissionCoordinator).     *)
(*                                                                         *)
(* Identifiers are modelled as sequences of one-character strings so that  *)
(* the regular expressions of the source are computed, not assumed.        *)
(* Opaque texts (titles, payloads, messages) are TLA+ strings; "" stands   *)
(* for every falsy JavaScript string value (undefined, null, '').          *)
(***************************************************************************)
EXTENDS Integers, Sequences, FiniteSets, TLC

VARIABLES
  env,            \* Deno.env of the edge function
  users,          \* table users: id -> [is_guest]
  submissions,    \* table problem_submissions: id -> row
  handler,        \* one invocation of the edge function per slot
  auth,           \* useAuth(): isAuthenticated and user.id
  coord,          \* useProblemSubmission state: isSubmitting, result, error
  loops,          \* the poll closures created by pollForCompletion, in order
  submitCount,    \* number of submitProblem calls started
  lastWriter,     \* the submitProblem call on whose behalf result/error were last set
  denied,         \* per submitProblem call: was the caller denied when it started
  rateLimitCache, \* SecurityManager.rateLimitCache: identifier -> [count, resetTime]
  now,            \* Date.now()
  rateSeen,       \* per identifier: start of its window and the calls made in it
  rateAnswer,     \* the last checkRateLimit call and what it returned
  permAnswer,     \* the last validateUserPermission call and what it returned
  sessions,       \* table learning_sessions: id -> row
  sm,             \* useSecureSession state: mounted, session, error
  task,           \* the operation of useSecureSession in flight, or the last one finished
  intervals,      \* number of setInterval timers armed by useSecureSession
  auditLogs,      \* table audit_logs: the events written
  uploads,        \* table media_uploads and the stored objects: id -> row
  idCall          \* utils/uuid: the input of createNamespacedUUID and what its calls returned

serverVars == <<env, users, submissions, handler, idCall>>
clientVars == <<auth, coord, loops, submitCount, lastWriter, denied>>
gatewayVars == <<rateLimitCache, now, rateSeen, rateAnswer, permAnswer>>
sessionVars == <<sessions, sm, task, intervals, auditLogs, uploads>>
vars == <<env, users, submissions, handler, auth, coord, loops, submitCount,
          lastWriter, denied, rateLimitCache, now, rateSeen, rateAnswer, permAnswer,
          sessions, sm, task, intervals, auditLogs, uploads, idCall>>

-----------------------------------------------------------------------------
(* Bounds *)

\* Number of edge-function invocations that may run, concurrently or in turn.
NumHandlers == 2

\* Number of distinct outcomes of the random source behind generateUUID.
NumSeeds == 2

\* Early answers of the deployed function, and so polling closures started.
MaxLoops == 1

\* Rate-limit windows that the clock runs through, the milliseconds by which
\* a call may be late in a window, and the calls made in a window beyond the limit.
MaxWindows == 2
MaxJitter == 1
MaxRefused == 2
MaxSessions == 2
MaxHours == 1
MaxUploads == 1

-----------------------------------------------------------------------------
(* Characters and identifiers *)

HexChar == <<"0", "1", "2", "3", "4", "5", "6", "7", "8", "9", "a", "b", "c", "d", "e", "f">>

\* [0-9a-f] under the /i flag
HexDigits == {HexChar[i] : i \in 1..16} \cup {"A", "B", "C", "D", "E", "F"}

UUID_TEMPLATE == <<"x", "x", "x", "x", "x", "x", "x", "x", "-", "x", "x", "x", "x", "-", "4", "x", "x", "x", "-", "y", "x", "x", "x", "-", "x", "x", "x", "x", "x", "x", "x", "x", "x", "x", "x", "x">>

\* The draws of Math.random() * 16 | 0, one per template position.
RandomDraws == {[i \in 1..36 |-> (s + i) % 16] : s \in 0..(NumSeeds - 1)}

\* r & 0x3 | 0x8 for r in 0..15
VariantNibble(r) == (r % 4) + 8

generateUUID(rnd) ==
  [i \in 1..36 |->
     CASE UUID_TEMPLATE[i] = "x" -> HexChar[rnd[i] + 1]
       [] UUID_TEMPLATE[i] = "y" -> HexChar[VariantNibble(rnd[i]) + 1]
       [] OTHER -> UUID_TEMPLATE[i]]

\* /^[0-9a-f]{8}-[0-9a-f]{4}-[0-9a-f]{4}-[0-9a-f]{4}-[0-9a-f]{12}$/i
HexShape(uuid) ==
  /\ Len(uuid) = 36
  /\ \A i \in 1..36 :
       IF i \in {9, 14, 19, 24} THEN uuid[i] = "-" ELSE uuid[i] \in HexDigits

\* isValidUUID of the edge function: any 8-4-4-4-12 hex string.
EdgeIsValidUUID(uuid) == HexShape(uuid)

\* isValidUUID of utils/uuid: non-empty, version nibble 4, variant nibble 8, 9, a or b.
isValidUUID(uuid) ==
  /\ uuid # <<>>
  /\ HexShape(uuid)
  /\ uuid[15] = "4"
  /\ uuid[20] \in {"8", "9", "a", "b", "A", "B"}

\* The characters of codes 45 to 91, 93 to 95 and 97 to 122, in code order.
CodesFrom45 ==
  <<"-", ".", "/", "0", "1", "2", "3", "4", "5", "6", "7", "8", "9", ":", ";", "<", "=", ">", "?", "@", "A", "B", "C", "D", "E", "F", "G", "H", "I", "J", "K", "L", "M", "N", "O", "P", "Q", "R", "S", "T", "U", "V", "W", "X", "Y", "Z", "[">>
CodesFrom93 == <<"]", "^", "_">>
CodesFrom97 ==
  <<"a", "b", "c", "d", "e", "f", "g", "h", "i", "j", "k", "l", "m", "n", "o", "p", "q", "r", "s", "t", "u", "v", "w", "x", "y", "z">>

IndexIn(seq, c) == CHOOSE i \in 1..Len(seq) : seq[i] = c

\* String.prototype.charCodeAt for one character
charCodeAt(c) ==
  IF \E i \in 1..Len(CodesFrom45) : CodesFrom45[i] = c THEN 44 + IndexIn(CodesFrom45, c)
  ELSE IF \E i \in 1..Len(CodesFrom93) : CodesFrom93[i] = c THEN 92 + IndexIn(CodesFrom93, c)
  ELSE 96 + IndexIn(CodesFrom97, c)

\* A 32-bit integer as its two 16-bit halves (two-complement form).
Int32Zero == [hi |-> 0, lo |-> 0]

\* utils/uuid lines 22-23: hash = ((hash << 5) - hash) + char; hash & hash,
\* that is 31 * hash + char reduced to 32 bits.
HashStep(hash, char) ==
  LET lo == hash.lo * 31 + char
      hi == hash.hi * 31 + (lo \div 65536)
  IN  [hi |-> hi % 65536, lo |-> lo % 65536]

RECURSIVE HashLoop(_, _, _)
\* utils/uuid lines 19-24: the loop over the characters from index i on
HashLoop(str, i, hash) ==
  IF i > Len(str) THEN hash
  ELSE HashLoop(str, i + 1, HashStep(hash, charCodeAt(str[i])))

\* The sign bit of a 32-bit integer
IsNegative(hash) == hash.hi >= 32768

\* Math.abs of a 32-bit integer; the result of -2147483648 is 2147483648
MathAbs(hash) ==
  IF IsNegative(hash)
    THEN [hi |-> (65536 - hash.hi - (IF hash.lo = 0 THEN 0 ELSE 1)) % 65536,
          lo |-> (65536 - hash.lo) % 65536]
    ELSE hash

RECURSIVE StripZeros(_)
StripZeros(digits) ==
  IF Len(digits) > 1 /\ digits[1] = 0 THEN StripZeros(Tail(digits)) ELSE digits

\* Number.prototype.toString(16) of a number below 2^32: no leading zeros
toString16(n) ==
  LET half(h) == <<h \div 4096, (h \div 256) % 16, (h \div 16) % 16, h % 16>>
      digits == StripZeros(half(n.hi) \o half(n.lo))
  IN  [i \in 1..Len(digits) |-> HexChar[digits[i] + 1]]

RECURSIVE PadZeros(_)
\* utils/uuid lines 31-38: pad with "0" to 32 characters, cut at 32
PadZeros(hashHex) ==
  IF Len(hashHex) < 32 THEN PadZeros(<<"0">> \o hashHex)
  ELSE SubSeq(hashHex, 1, 32)

\* parseInt(c, 16) of one hex digit
parseInt16(c) == CHOOSE r \in 0..15 : HexChar[r + 1] = c

\* utils/uuid lines 42-48 without the version character
stringToUUIDUnversioned(userIdString) ==
  LET hashHex == PadZeros(toString16(MathAbs(HashLoop(userIdString, 1, Int32Zero))))
      slice(a, b) == SubSeq(hashHex, a + 1, b)
  IN  IF userIdString = <<>> THEN <<>>
      ELSE slice(0, 8) \o <<"-">> \o slice(8, 12) \o <<"-">>
           \o slice(12, 16) \o <<"-">>
           \o <<HexChar[VariantNibble(parseInt16(hashHex[16])) + 1]>> \o slice(16, 19)
           \o <<"-">> \o slice(19, 31)

\* utils/uuid lines 13-51; the exception of line 15 is the empty answer
stringToUUID(userIdString) ==
  LET hashHex == PadZeros(toString16(MathAbs(HashLoop(userIdString, 1, Int32Zero))))
      slice(a, b) == SubSeq(hashHex, a + 1, b)
  IN  IF userIdString = <<>> THEN <<>>
      ELSE slice(0, 8) \o <<"-">> \o slice(8, 12) \o <<"-">>
           \o <<"4">> \o slice(12, 15) \o <<"-">>
           \o <<HexChar[VariantNibble(parseInt16(hashHex[16])) + 1]>> \o slice(16, 19)
           \o <<"-">> \o slice(19, 31)

\* utils/uuid lines 104-107
createNamespacedUUID(namespace, value) == stringToUUID(namespace \o <<":">> \o value)

\* No call of createNamespacedUUID has been made and none is set up.
NoIdCall == [namespace |-> <<>>, value |-> <<>>, returned |-> <<>>]

DEFAULT_USER_ID == <<"1", "2", "3", "4", "5", "6", "7", "8", "-", "1", "2", "3", "4", "-", "5", "6", "7", "8", "-", "1", "2", "3", "4", "-", "5", "6", "7", "8", "1", "2", "3", "4", "5", "6", "7", "8">>

\* constants/user.ts
ClientDefaultUserId == <<"1", "2", "3", "4", "5", "6", "7", "8", "-", "1", "2", "3", "4", "-", "5", "6", "7", "8", "-", "1", "2", "3", "4", "-", "5", "6", "7", "8", "1", "2", "3", "4", "5", "6", "7", "8">>

\* Owner ids a caller may present.
USER_A == <<"a", "a", "a", "a", "a", "a", "a", "a", "-", "a", "a", "a", "a", "-", "4", "a", "a", "a", "-", "8", "a", "a", "a", "-", "a", "a", "a", "a", "a", "a", "a", "a", "a", "a", "a", "a">>
LEGACY_ID == <<"b", "b", "b", "b", "b", "b", "b", "b", "-", "b", "b", "b", "b", "-", "1", "b", "b", "b", "-", "b", "b", "b", "b", "-", "b", "b", "b", "b", "b", "b", "b", "b", "b", "b", "b", "b">>
MALFORMED_ID == <<"u", "s", "e", "r", "_", "1", "2", "3">>
NoId == <<>>

OwnerInputs == {NoId, DEFAULT_USER_ID, USER_A, LEGACY_ID, MALFORMED_ID}

-----------------------------------------------------------------------------
(* Text of the provider response and its heuristic parse *)

UpperCase == <<"A", "B", "C", "D", "E", "F", "G", "H", "I", "J", "K", "L", "M", "N", "O", "P", "Q", "R", "S", "T", "U", "V", "W", "X", "Y", "Z">>
LowerCase == <<"a", "b", "c", "d", "e", "f", "g", "h", "i", "j", "k", "l", "m", "n", "o", "p", "q", "r", "s", "t", "u", "v", "w", "x", "y", "z">>

\* \w of the regular expression /\b\w+\b/g
WordChars ==
  {UpperCase[i] : i \in 1..26} \cup {LowerCase[i] : i \in 1..26}
    \cup {"0", "1", "2", "3", "4", "5", "6", "7", "8", "9", "_"}

toLowerCase(s) ==
  [i \in 1..Len(s) |->
     IF \E k \in 1..26 : UpperCase[k] = s[i]
       THEN LowerCase[CHOOSE k \in 1..26 : UpperCase[k] = s[i]]
       ELSE s[i]]

includes(s, kw) ==
  \E i \in 1..(Len(s) - Len(kw) + 1) : SubSeq(s, i, i + Len(kw) - 1) = kw

RECURSIVE split(_)
\* solution.split('\n')
split(s) ==
  IF \A i \in 1..Len(s) : s[i] # "\n"
    THEN <<s>>
    ELSE LET i == CHOOSE j \in 1..Len(s) :
                    s[j] = "\n" /\ \A k \in 1..(j - 1) : s[k] # "\n"
         IN  <<SubSeq(s, 1, i - 1)>> \o split(SubSeq(s, i + 1, Len(s)))

RECURSIVE matchWords(_)
\* line.match(/\b\w+\b/g): the maximal runs of word characters, in order
matchWords(s) ==
  IF \A i \in 1..Len(s) : s[i] \notin WordChars
    THEN <<>>
    ELSE LET b == CHOOSE j \in 1..Len(s) :
                    s[j] \in WordChars /\ \A k \in 1..(j - 1) : s[k] \notin WordChars
             e == CHOOSE j \in b..Len(s) :
                    /\ \A k \in b..j : s[k] \in WordChars
                    /\ (j = Len(s) \/ s[j + 1] \notin WordChars)
         IN  <<SubSeq(s, b, e)>> \o matchWords(SubSeq(s, e + 1, Len(s)))

\* tagMatches.slice(-3)
sliceLast3(ws) == IF Len(ws) <= 3 THEN ws ELSE SubSeq(ws, Len(ws) - 2, Len(ws))

kwSubject == <<"s", "u", "b", "j", "e", "c", "t">>
kwArea == <<"a", "r", "e", "a">>
kwMath == <<"m", "a", "t", "h">>
kwScience == <<"s", "c", "i", "e", "n", "c", "e">>
kwPhysics == <<"p", "h", "y", "s", "i", "c", "s">>
kwChemistry == <<"c", "h", "e", "m", "i", "s", "t", "r", "y">>
kwBiology == <<"b", "i", "o", "l", "o", "g", "y">>
kwHistory == <<"h", "i", "s", "t", "o", "r", "y">>
kwEnglish == <<"e", "n", "g", "l", "i", "s", "h">>
kwLiterature == <<"l", "i", "t", "e", "r", "a", "t", "u", "r", "e">>
kwDifficulty == <<"d", "i", "f", "f", "i", "c", "u", "l", "t", "y">>
kwEasy == <<"e", "a", "s", "y">>
kwHard == <<"h", "a", "r", "d">>
kwTags == <<"t", "a", "g", "s">>
kwTag == <<"t", "a", "g">>

NO_SOLUTION == <<"N", "o", " ", "s", "o", "l", "u", "t", "i", "o", "n", " ", "g", "e", "n", "e", "r", "a", "t", "e", "d">>
DefaultTags == <<<<"g", "e", "n", "e", "r", "a", "l">>, <<"l", "e", "a", "r", "n", "i", "n", "g">>>>

\* One iteration of the parsing loop over a line.
ParseLine(acc, line) ==
  LET lowerLine == toLowerCase(line)
      subject ==
        IF includes(lowerLine, kwSubject) \/ includes(lowerLine, kwArea)
          THEN IF includes(lowerLine, kwMath) THEN "Mathematics"
               ELSE IF \/ includes(lowerLine, kwScience)
                       \/ includes(lowerLine, kwPhysics)
                       \/ includes(lowerLine, kwChemistry)
                       \/ includes(lowerLine, kwBiology) THEN "Science"
               ELSE IF includes(lowerLine, kwHistory) THEN "History"
               ELSE IF includes(lowerLine, kwEnglish) \/ includes(lowerLine, kwLiterature)
                 THEN "English"
               ELSE acc.subject
          ELSE acc.subject
      difficulty ==
        IF includes(lowerLine, kwDifficulty)
          THEN IF includes(lowerLine, kwEasy) THEN "easy"
               ELSE IF includes(lowerLine, kwHard) THEN "hard"
               ELSE "medium"
          ELSE acc.difficulty
      tags ==
        IF includes(lowerLine, kwTags) \/ includes(lowerLine, kwTag)
          THEN acc.tags \o sliceLast3(matchWords(line))
          ELSE acc.tags
  IN  [subject |-> subject, difficulty |-> difficulty, tags |-> tags]

RECURSIVE ParseLines(_, _)
ParseLines(acc, lines) ==
  IF lines = <<>> THEN acc ELSE ParseLines(ParseLine(acc, Head(lines)), Tail(lines))

ParseSolutionNoDefaultTags(text) ==
  LET solution == IF text = <<>> THEN NO_SOLUTION ELSE text
      p == ParseLines([subject |-> "General", difficulty |-> "medium", tags |-> <<>>],
                      split(solution))
  IN  [solution |-> solution, subject |-> p.subject, difficulty |-> p.difficulty,
       tags |-> p.tags]

\* Lines 278-313: extract the text, parse it, fall back to the default tags.
ParseSolution(text) ==
  LET solution == IF text = <<>> THEN NO_SOLUTION ELSE text
      p == ParseLines([subject |-> "General", difficulty |-> "medium", tags |-> <<>>],
                      split(solution))
  IN  [solution |-> solution,
       subject |-> p.subject,
       difficulty |-> p.difficulty,
       tags |-> IF Len(p.tags) = 0 THEN DefaultTags ELSE p.tags]

\* candidates[0].content.parts[0].text of the provider bodies considered;
\* <<>> is a body without that text.
Text4 == <<"4">>

ProviderTexts ==
  { <<>>,
    Text4,
    <<"S", "u", "b", "j", "e", "c", "t", ":", " ", "M", "a", "t", "h", "\n", "D", "i", "f", "f", "i", "c", "u", "l", "t", "y", ":", " ", "h", "a", "r", "d", "\n", "T", "a", "g", "s", ":", " ", "a", "l", "g", "e", "b", "r", "a">> }

NoParse == [solution |-> <<>>, subject |-> "", difficulty |-> "", tags |-> <<>>]

-----------------------------------------------------------------------------
(* The store: tables users and problem_submissions *)

EmptyTable == [k \in {} |-> k]

InputTypes == {"text", "image", "voice"}
Terminal == {"completed", "error"}
NonTerminal == {"pending", "processing"}

\* The row the edge function inserts (lines 141-152).  updated_at counts the
\* writes of the row; it stands for the timestamp, which every write renews.
NewSubmission(req, userId) ==
  [user_id |-> userId,
   title |-> req.title,
   input_type |-> req.input_type,
   text_content |-> req.text_content,
   image_url |-> req.image_data,
   voice_url |-> req.voice_url,
   status |-> "processing",
   solution |-> <<>>,
   topic |-> "",
   difficulty |-> "",
   tags |-> <<>>,
   error_message |-> "",
   updated_at |-> 0]

\* Constraints of table problem_submissions: primary key, foreign key to
\* users (NULL allowed), NOT NULL title, CHECK on input_type.
InsertAccepted(tbl, profiles, id, row) ==
  /\ id \notin DOMAIN tbl
  /\ (row.user_id = NoId \/ row.user_id \in DOMAIN profiles)
  /\ row.title # <<>>
  /\ row.input_type \in InputTypes

\* .update(patch).eq('id', id), with the updated_at trigger
UpdateByIdAllRows(tbl, id, patch) ==
  [k \in DOMAIN tbl |->
     [f \in DOMAIN tbl[k] |->
        IF f \in DOMAIN patch THEN patch[f]
        ELSE IF f = "updated_at" THEN tbl[k].updated_at + 1
        ELSE tbl[k][f]]]

UpdateById(tbl, id, patch) ==
  [k \in DOMAIN tbl |->
     IF k = id
       THEN [f \in DOMAIN tbl[k] |->
               IF f \in DOMAIN patch THEN patch[f]
               ELSE IF f = "updated_at" THEN tbl[k].updated_at + 1
               ELSE tbl[k][f]]
       ELSE tbl[k]]

ErrorPatch(msg) == [status |-> "error", error_message |-> msg]

CompletedPatch(p) ==
  [solution |-> p.solution,
   topic |-> p.subject,
   difficulty |-> p.difficulty,
   tags |-> p.tags,
   status |-> "completed"]

-----------------------------------------------------------------------------
(* The edge function (InferenceHandler) *)

Handlers == 1..NumHandlers

\* title and text_content are character sequences (the client trims them);
\* image_data and voice_url are opaque.
NoReq ==
  [input_type |-> "", title |-> <<>>, text_content |-> <<>>, image_data |-> "",
   voice_url |-> "", user_id |-> NoId]

NoResp ==
  [http |-> 0, success |-> FALSE, error |-> "", problemId |-> NoId, status |-> "",
   solution |-> <<>>, subject |-> "", difficulty |-> "", tags |-> <<>>]

\* calls and provider record what the invocation has done so far: the store
\* writes and provider calls it made, and how the provider call ended.
IdleHandler ==
  [pc |-> "idle", req |-> NoReq, userId |-> NoId, problemId |-> NoId,
   problemData |-> FALSE, parsed |-> NoParse, errText |-> "", resp |-> NoResp,
   calls |-> {}, provider |-> "none"]

\* Lines 71-85: the message of the validation error thrown, "" when none is.
ValidationErrorNoImageCheck(req) ==
  IF req.input_type = "" \/ req.title = <<>>
    THEN "Missing required fields: input_type and title are required"
  ELSE IF req.input_type = "text" /\ req.text_content = <<>>
    THEN "text_content is required for text input type"
  ELSE IF req.input_type = "voice" /\ req.voice_url = ""
    THEN "voice_url is required for voice input type"
  ELSE ""

ValidationError(req) ==
  IF req.input_type = "" \/ req.title = <<>>
    THEN "Missing required fields: input_type and title are required"
  ELSE IF req.input_type = "text" /\ req.text_content = <<>>
    THEN "text_content is required for text input type"
  ELSE IF req.input_type = "image" /\ req.image_data = ""
    THEN "image_data is required for image input type"
  ELSE IF req.input_type = "voice" /\ req.voice_url = ""
    THEN "voice_url is required for voice input type"
  ELSE ""

\* Lines 88-95
ResolveOwnerNoDefault(user_id, rnd) ==
  IF user_id = NoId THEN user_id
  ELSE IF ~EdgeIsValidUUID(user_id) THEN generateUUID(rnd)
  ELSE user_id

ResolveOwner(user_id, rnd) ==
  IF user_id = NoId THEN DEFAULT_USER_ID
  ELSE IF ~EdgeIsValidUUID(user_id) THEN generateUUID(rnd)
  ELSE user_id

\* Lines 358-371: the catch block's response; it names no submission.
CatchResp(msg) == [NoResp EXCEPT !.http = 500, !.error = msg]

\* Lines 179-189 and 261-271
FailureResp(msg, problemId) ==
  [NoResp EXCEPT !.http = 500, !.error = msg, !.problemId = problemId]

\* Lines 342-356
SuccessResp(problemId, p) ==
  [http |-> 200, success |-> TRUE, error |-> "", problemId |-> problemId,
   status |-> "completed", solution |-> p.solution, subject |-> p.subject,
   difficulty |-> p.difficulty, tags |-> p.tags]

\* Lines 43-97: environment check, body, validation, owner resolution.
Receive(h, req, rnd) ==
  /\ handler[h].pc = "idle"
  /\ IF ~env.SUPABASE_URL
       THEN handler' = [handler EXCEPT ![h].pc = "done", ![h].req = req,
                          ![h].resp = CatchResp("SUPABASE_URL environment variable is missing")]
     ELSE IF ~env.SUPABASE_SERVICE_ROLE_KEY
       THEN handler' = [handler EXCEPT ![h].pc = "done", ![h].req = req,
                          ![h].resp = CatchResp("SUPABASE_SERVICE_ROLE_KEY environment variable is missing")]
     ELSE IF ValidationError(req) # ""
       THEN handler' = [handler EXCEPT ![h].pc = "done", ![h].req = req,
                          ![h].resp = CatchResp(ValidationError(req))]
     ELSE handler' = [handler EXCEPT ![h].pc = "userCheck", ![h].req = req,
                        ![h].userId = ResolveOwner(req.user_id, rnd)]
  /\ UNCHANGED <<env, idCall, users, submissions>>

\* Lines 100-106 and 128-133: select the profile; a missing row (PGRST116)
\* leads to the insert, any other outcome goes straight on.
UserCheck(h) ==
  /\ handler[h].pc = "userCheck"
  /\ \/ /\ handler[h].userId \notin DOMAIN users
        /\ handler' = [handler EXCEPT ![h].pc = "createUser"]
     \/ /\ handler[h].userId \in DOMAIN users
        /\ handler' = [handler EXCEPT ![h].pc = "insert"]
     \/ handler' = [handler EXCEPT ![h].pc = "insert"]   \* userCheckError, other code
  /\ UNCHANGED <<env, idCall, users, submissions>>

\* Lines 110-127: insert the guest profile; a failure is logged and ignored.
CreateUser(h) ==
  /\ handler[h].pc = "createUser"
  /\ \/ /\ handler[h].userId \notin DOMAIN users
        /\ users' = (handler[h].userId :> [is_guest |-> TRUE]) @@ users
        /\ handler' = [handler EXCEPT ![h].pc = "insert",
                         ![h].calls = @ \cup {"insert users"}]
     \/ /\ users' = users                                  \* createUserError
        /\ handler' = [handler EXCEPT ![h].pc = "insert"]
  /\ UNCHANGED <<env, idCall, submissions>>

\* Lines 136-190: generate the id, insert the row with status processing,
\* then look for the provider key.
InsertSubmission(h, rnd) ==
  /\ handler[h].pc = "insert"
  /\ LET problemId == generateUUID(rnd)
         row == NewSubmission(handler[h].req, handler[h].userId)
     IN  \/ /\ InsertAccepted(submissions, users, problemId, row)
            /\ submissions' = (problemId :> row) @@ submissions
            /\ handler' = [handler EXCEPT
                 ![h].pc = IF env.GOOGLE_API_KEY THEN "fetch" ELSE "keyErrorUpdate",
                 ![h].problemId = problemId,
                 ![h].problemData = TRUE,
                 ![h].errText = IF env.GOOGLE_API_KEY THEN "" ELSE "Google API key not configured",
                 ![h].calls = @ \cup {"insert problem_submissions"}]
         \/ /\ submissions' = submissions                  \* insertError
            /\ handler' = [handler EXCEPT ![h].pc = "done", ![h].problemId = problemId,
                             ![h].resp = CatchResp("Failed to create problem submission")]
  /\ UNCHANGED <<env, idCall, users>>

\* Lines 169-189 and 251-271: write status error; the outcome of the write
\* is not looked at.
ErrorUpdate(h) ==
  /\ handler[h].pc \in {"keyErrorUpdate", "providerErrorUpdate"}
  /\ \/ submissions' = UpdateById(submissions, handler[h].problemId,
                                  ErrorPatch(handler[h].errText))
     \/ submissions' = submissions                         \* the update fails
  /\ handler' = [handler EXCEPT ![h].pc = "done",
                   ![h].resp = FailureResp(handler[h].errText, handler[h].problemId)]
  /\ UNCHANGED <<env, idCall, users>>

\* The provider's non-2xx statuses considered.
NonOkStatuses == {500}

\* `Gemini API error: ${geminiResponse.status}`
GeminiErrorMessage(status) ==
  CASE status = 429 -> "Gemini API error: 429"
    [] status = 500 -> "Gemini API error: 500"

\* Lines 219-313: the provider call, reading its body, parsing the text.
CallProvider(h, texts) ==
  /\ handler[h].pc = "fetch"
  /\ \/ handler' = [handler EXCEPT ![h].pc = "done",        \* fetch rejects
                      ![h].resp = CatchResp("fetch failed"),
                      ![h].calls = @ \cup {"provider"},
                      ![h].provider = "transport"]
     \/ \E status \in NonOkStatuses :
          handler' = [handler EXCEPT ![h].pc = "providerErrorUpdate",
                        ![h].errText = GeminiErrorMessage(status),
                        ![h].calls = @ \cup {"provider"},
                        ![h].provider = "non2xx"]
     \/ handler' = [handler EXCEPT ![h].pc = "done",        \* text() rejects
                      ![h].resp = CatchResp("body stream error"),
                      ![h].calls = @ \cup {"provider"},
                      ![h].provider = "non2xx"]
     \/ handler' = [handler EXCEPT ![h].pc = "done",        \* json() rejects
                      ![h].resp = CatchResp("Unexpected end of JSON input"),
                      ![h].calls = @ \cup {"provider"},
                      ![h].provider = "unreadable"]
     \/ \E text \in texts :
          handler' = [handler EXCEPT ![h].pc = "finalUpdate",
                        ![h].parsed = ParseSolution(text),
                        ![h].calls = @ \cup {"provider"},
                        ![h].provider = "ok"]
  /\ UNCHANGED <<env, idCall, users, submissions>>

\* Lines 316-356: write status completed, then answer.
FinalUpdate(h) ==
  /\ handler[h].pc = "finalUpdate"
  /\ \/ /\ submissions' = UpdateById(submissions, handler[h].problemId,
                                     CompletedPatch(handler[h].parsed))
        /\ handler' = [handler EXCEPT ![h].pc = "done",
                         ![h].resp = SuccessResp(handler[h].problemId, handler[h].parsed)]
     \/ /\ submissions' = submissions                      \* updateError
        /\ handler' = [handler EXCEPT ![h].pc = "done",
                         ![h].resp = CatchResp("Failed to update problem submission")]
  /\ UNCHANGED <<env, idCall, users>>

-----------------------------------------------------------------------------
(* Texts used in requests *)

TitleT == <<"T">>
Text2Plus2 == <<"2", "+", "2", "?">>

-----------------------------------------------------------------------------
(* The security gateway, as far as the submission path is concerned *)

\* Line 74
allowedGuestActions == {"read_public", "submit_problem"}

GuestAllowedAnything(action) == TRUE

\* Line 75
GuestAllowed(action) == action \in allowedGuestActions

\* SecurityManager.validateUserPermission; failed: the query on users answers
\* an error.
validateUserPermissionQuery(userId, action, failed) ==
  IF ~isValidUUID(userId) THEN FALSE
  ELSE IF failed \/ userId \notin DOMAIN users THEN FALSE
  ELSE IF users[userId].is_guest THEN GuestAllowed(action)
  ELSE TRUE

\* SecurityManager.validateUserPermission when the store answers.
validateUserPermission(userId, action) == validateUserPermissionQuery(userId, action, FALSE)

\* defaultSecurityConfig.maxRequestsPerMinute
maxRequestsPerMinute == 30

\* SecurityManager.checkRateLimit would answer false for the identifier.
RateLimitExhausted(identifier) ==
  /\ identifier \in DOMAIN rateLimitCache
  /\ ~(now > rateLimitCache[identifier].resetTime)
  /\ rateLimitCache[identifier].count >= maxRequestsPerMinute

\* Line 146
windowMs == 60 * 1000

WindowElapsedAtReset(current) == now >= current.resetTime

\* Line 151: now > current.resetTime
WindowElapsed(current) == now > current.resetTime

NoAnswer == [called |-> FALSE]

\* The identifier starts a new window with this call (history of the calls).
StartsWindow(identifier) ==
  IF identifier \notin DOMAIN rateSeen
    THEN TRUE
    ELSE now - rateSeen[identifier].start > windowMs

\* checkRateLimit counting the refused call as well
checkRateLimitCountingRefusals(identifier) ==
  /\ IF identifier \notin DOMAIN rateLimitCache
       THEN /\ rateLimitCache' =
                 (identifier :> [count |-> 1, resetTime |-> now + windowMs]) @@ rateLimitCache
            /\ rateAnswer' = [called |-> TRUE, identifier |-> identifier, allowed |-> TRUE]
     ELSE IF WindowElapsed(rateLimitCache[identifier])
       THEN /\ rateLimitCache' =
                 [rateLimitCache EXCEPT ![identifier] =
                    [count |-> 1, resetTime |-> now + windowMs]]
            /\ rateAnswer' = [called |-> TRUE, identifier |-> identifier, allowed |-> TRUE]
     ELSE /\ rateLimitCache' = [rateLimitCache EXCEPT ![identifier].count = @ + 1]
          /\ rateAnswer' = [called |-> TRUE, identifier |-> identifier,
                            allowed |-> rateLimitCache[identifier].count < maxRequestsPerMinute]
  /\ rateSeen' =
       IF StartsWindow(identifier)
         THEN (identifier :> [start |-> now, calls |-> 1]) @@ rateSeen
         ELSE [rateSeen EXCEPT ![identifier].calls = @ + 1]
  /\ UNCHANGED <<now, permAnswer>>

\* SecurityManager.checkRateLimit(identifier), lines 144-165.  rateSeen keeps,
\* apart from the cache, when the identifier's window began and how many calls
\* were made in it.
checkRateLimit(identifier) ==
  /\ IF identifier \notin DOMAIN rateLimitCache
       THEN /\ rateLimitCache' =
                 (identifier :> [count |-> 1, resetTime |-> now + windowMs]) @@ rateLimitCache
            /\ rateAnswer' = [called |-> TRUE, identifier |-> identifier, allowed |-> TRUE]
     ELSE IF WindowElapsed(rateLimitCache[identifier])
       THEN /\ rateLimitCache' =
                 [rateLimitCache EXCEPT ![identifier] =
                    [count |-> 1, resetTime |-> now + windowMs]]
            /\ rateAnswer' = [called |-> TRUE, identifier |-> identifier, allowed |-> TRUE]
     ELSE IF rateLimitCache[identifier].count >= maxRequestsPerMinute
       THEN /\ rateLimitCache' = rateLimitCache
            /\ rateAnswer' = [called |-> TRUE, identifier |-> identifier, allowed |-> FALSE]
     ELSE /\ rateLimitCache' = [rateLimitCache EXCEPT ![identifier].count = @ + 1]
          /\ rateAnswer' = [called |-> TRUE, identifier |-> identifier, allowed |-> TRUE]
  /\ rateSeen' =
       IF StartsWindow(identifier)
         THEN (identifier :> [start |-> now, calls |-> 1]) @@ rateSeen
         ELSE [rateSeen EXCEPT ![identifier].calls = @ + 1]
  /\ UNCHANGED <<now, permAnswer>>

-----------------------------------------------------------------------------
(* The client hook useProblemSubmission (SubmissionCoordinator) *)

\* pollForCompletion: maxAttempts
maxAttempts == 60

\* isValidUUID of the hook: any 8-4-4-4-12 hex string.
HookIsValidUUID(uuid) == HexShape(uuid)

WhiteSpace == {" ", "\n", "\t"}

RECURSIVE trimStart(_)
trimStart(s) == IF s # <<>> /\ Head(s) \in WhiteSpace THEN trimStart(Tail(s)) ELSE s

RECURSIVE trimEnd(_)
trimEnd(s) ==
  IF s # <<>> /\ s[Len(s)] \in WhiteSpace THEN trimEnd(SubSeq(s, 1, Len(s) - 1)) ELSE s

\* String.prototype.trim
trim(s) == trimEnd(trimStart(s))

NoResult ==
  [present |-> FALSE, id |-> NoId, status |-> "", solution |-> <<>>, subject |-> "",
   difficulty |-> "", tags |-> <<>>, errorMessage |-> ""]

IdleCoord ==
  [pc |-> "idle", isSubmitting |-> FALSE, result |-> NoResult, error |-> "",
   requestBody |-> NoReq]

\* The callers: nobody signed in, the guest of continueAsGuest, a user of login.
Anonymous == [isAuthenticated |-> FALSE, userId |-> NoId]
Guest == [isAuthenticated |-> TRUE, userId |-> ClientDefaultUserId]
LoggedIn == [isAuthenticated |-> TRUE, userId |-> USER_A]
Callers == {Anonymous, Guest, LoggedIn}

Data(type, title, text, image, voice) ==
  [inputType |-> type, title |-> title, textContent |-> text, imageData |-> image,
   voiceUrl |-> voice]

BlankTitle == <<" ", " ">>
PaddedTitle == <<" ", "T">>

\* The ProblemSubmissionData values submitted.
SubmissionData ==
  { Data("text", PaddedTitle, Text2Plus2, "", ""),
    Data("text", BlankTitle, Text2Plus2, "", ""),
    Data("image", TitleT, <<>>, "", "") }

\* The identifier under which a submit would be rate limited, after upload_${userId}.
SubmitRateKey(userId) == <<"submit_", userId>>

\* The caller is refused by the gateway: no permission, or bucket exhausted.
CallerDenied ==
  \/ ~validateUserPermission(auth.userId, "submit_problem")
  \/ RateLimitExhausted(SubmitRateKey(auth.userId))

\* Lines 46-73: reset, client-side validation, request body.
submitProblem(data) ==
  /\ coord.pc = "idle"
  /\ submitCount < NumHandlers
  /\ submitCount' = submitCount + 1
  /\ lastWriter' = submitCount + 1
  /\ denied' = Append(denied, CallerDenied)
  /\ coord' =
       IF trim(data.title) = <<>>
         THEN [IdleCoord EXCEPT !.error = "Problem title is required"]
       ELSE IF trim(data.textContent) = <<>> /\ data.imageData = "" /\ data.voiceUrl = ""
         THEN [IdleCoord EXCEPT !.error = "Problem content is required"]
       ELSE [IdleCoord EXCEPT
               !.pc = "getSession",
               !.isSubmitting = TRUE,
               !.requestBody = [input_type |-> data.inputType,
                                title |-> trim(data.title),
                                text_content |-> trim(data.textContent),
                                image_data |-> data.imageData,
                                voice_url |-> data.voiceUrl,
                                user_id |-> NoId]]
  /\ UNCHANGED <<auth, loops>>

\* Lines 79-110: after getSession, the edge function is invoked; the
\* invocation for the k-th call runs in slot k.
InvokeFunction(rnd) ==
  /\ coord.pc = "getSession"
  /\ Receive(submitCount, coord.requestBody, rnd)
  /\ coord' = [coord EXCEPT !.pc = "invoke"]
  /\ UNCHANGED <<auth, loops, submitCount, lastWriter, denied>>

\* Line 157
StartsPolling(status) == status \in {"processing", "pending"}

\* pollForCompletion(problemId): a closure with attempts = 0 and a first
\* timer.  fetches counts the queries issued, observed is what the last
\* query returned, timedOut whether the closure gave up.
NewLoop(problemId, gen) ==
  [problemId |-> problemId, attempts |-> 0, pc |-> "timer", gen |-> gen,
   fetches |-> 0, observed |-> "", timedOut |-> FALSE]

Finished(error, result) ==
  [IdleCoord EXCEPT !.error = error, !.result = result]

\* Lines 112-177: what submitProblem does with the answer of invoke.
HandleResponse(resp) ==
  /\ coord.pc = "invoke"
  /\ IF resp.http # 200
       THEN /\ coord' = Finished("AI service is temporarily unavailable. Please try again later.",
                                 coord.result)
            /\ loops' = loops
     ELSE IF ~resp.success
       THEN /\ coord' = Finished(IF resp.error = "" THEN "AI processing failed" ELSE resp.error,
                                 coord.result)
            /\ loops' = loops
     ELSE IF resp.problemId = NoId \/ ~HookIsValidUUID(resp.problemId)
       THEN /\ coord' = Finished("Invalid response from AI service", coord.result)
            /\ loops' = loops
     ELSE /\ coord' = Finished("",
                        [present |-> TRUE,
                         id |-> resp.problemId,
                         status |-> IF resp.status = "" THEN "completed" ELSE resp.status,
                         solution |-> resp.solution,
                         subject |-> resp.subject,
                         difficulty |-> resp.difficulty,
                         tags |-> resp.tags,
                         errorMessage |-> ""])
          /\ loops' = IF StartsPolling(resp.status)
                        THEN Append(loops, NewLoop(resp.problemId, submitCount))
                        ELSE loops
  /\ lastWriter' = submitCount
  /\ UNCHANGED <<auth, submitCount, denied>>

\* The invocation has answered and invoke returns its answer.
Deliver ==
  /\ coord.pc = "invoke"
  /\ handler[submitCount].pc = "done"
  /\ HandleResponse(handler[submitCount].resp)
  /\ UNCHANGED serverVars

\* The deployed function the hook invokes, 'secure-submit-problem', is not
\* part of the sources.  The hook provides for an answer with a non-terminal
\* status: here the function may answer as soon as the row is inserted,
\* naming the row and status processing, and carry on in the background.
Acknowledge(limit) ==
  /\ coord.pc = "invoke"
  /\ Len(loops) < limit
  /\ handler[submitCount].pc \in {"fetch", "finalUpdate", "providerErrorUpdate", "keyErrorUpdate"}
  /\ HandleResponse([NoResp EXCEPT !.http = 200, !.success = TRUE,
                       !.problemId = handler[submitCount].problemId,
                       !.status = "processing"])
  /\ UNCHANGED serverVars

\* At most MaxLoops answers of this kind are given.
AcknowledgeProcessing == Acknowledge(MaxLoops)

\* Line 199
FiltersByUserNever == FALSE

\* Line 199: the query is narrowed to the caller's rows.
FiltersByUser == auth.isAuthenticated /\ auth.userId # NoId /\ HookIsValidUUID(auth.userId)

\* The row query.single() returns for the closure, if it returns one.
RowVisible(problemId) ==
  /\ problemId \in DOMAIN submissions
  /\ FiltersByUser => submissions[problemId].user_id = auth.userId

\* Line 236
IsTerminalStatusCompletedOnly(status) == status = "completed"

IsTerminalStatus(status) == status = "completed" \/ status = "error"

\* Line 245
ContinuePollingOffByOne(attempts) == attempts <= maxAttempts

ContinuePolling(attempts) == attempts < maxAttempts

ResultOfRow(id, row) ==
  [present |-> TRUE, id |-> id, status |-> row.status, solution |-> row.solution,
   subject |-> row.topic, difficulty |-> row.difficulty, tags |-> row.tags,
   errorMessage |-> row.error_message]

\* Lines 184-253: one run of poll, from the timer firing to its return.  The
\* query and the handling of its answer are taken as one step.
poll(i) ==
  /\ loops[i].pc = "timer"
  /\ IF ~HookIsValidUUID(loops[i].problemId)
       THEN /\ loops' = [loops EXCEPT ![i].pc = "stopped"]
            /\ coord' = [coord EXCEPT !.error = "Failed to check problem status"]
       ELSE \/ /\ loops' = [loops EXCEPT ![i].pc = "stopped", ![i].fetches = @ + 1,
                                ![i].observed = "fetchError"]
               /\ coord' = [coord EXCEPT !.error = "Failed to check problem status"]
            \/ /\ RowVisible(loops[i].problemId)
               /\ LET row == submissions[loops[i].problemId]
                      res == ResultOfRow(loops[i].problemId, row)
                  IN  IF IsTerminalStatus(row.status)
                        THEN /\ loops' = [loops EXCEPT ![i].pc = "stopped",
                                            ![i].fetches = @ + 1,
                                            ![i].observed = row.status]
                             /\ coord' = [coord EXCEPT
                                  !.result = res,
                                  !.error = IF row.status = "error"
                                              THEN IF row.error_message = ""
                                                     THEN "Problem processing failed"
                                                     ELSE row.error_message
                                              ELSE @]
                      ELSE IF ContinuePolling(loops[i].attempts + 1)
                        THEN /\ loops' = [loops EXCEPT ![i].attempts = @ + 1,
                                            ![i].fetches = @ + 1,
                                            ![i].observed = row.status]
                             /\ coord' = [coord EXCEPT !.result = res]
                      ELSE /\ loops' = [loops EXCEPT ![i].pc = "stopped",
                                          ![i].attempts = @ + 1,
                                          ![i].fetches = @ + 1,
                                          ![i].observed = row.status,
                                          ![i].timedOut = TRUE]
                           /\ coord' = [coord EXCEPT !.result = res,
                                          !.error = "Problem processing timed out"]
  /\ lastWriter' = loops[i].gen
  /\ UNCHANGED <<auth, submitCount, denied>>

ClearedKeepsError(c) == [c EXCEPT !.result = NoResult]

\* Lines 261-262: setResult(null); setError(null)
Cleared(c) == [c EXCEPT !.result = NoResult, !.error = ""]

\* Lines 260-263: clearResult() only sets state of the hook.
clearResult ==
  /\ coord' = Cleared(coord)
  /\ UNCHANGED <<auth, loops, submitCount, lastWriter, denied>>

-----------------------------------------------------------------------------
(* The hook useSecureSession (SessionManager) and the audit log *)

\* session_end IS NULL
NoTime == -1

\* Line 242: 1000 * 60 * 60
hourMs == 1000 * 60 * 60

\* session: null
NoSession == [id |-> 0, userId |-> NoId, startTime |-> 0, metadata |-> EmptyTable]

\* No operation has been started.
IdleTask ==
  [kind |-> "none", pc |-> "done", uid |-> NoId, sid |-> 0, meta |-> EmptyTable,
   ret |-> "none", inner |-> FALSE, failed |-> FALSE, open |-> {}, made |-> 0,
   found |-> FALSE, expired |-> FALSE, auditFailed |-> FALSE, upload |-> NoId]

\* An operation started with the values its closure holds: the user id, and
\* the id and metadata of session.
StartTask(kind, pc, uid, sid, meta) ==
  [IdleTask EXCEPT !.kind = kind, !.pc = pc, !.uid = uid, !.sid = sid, !.meta = meta]

Idle == task.pc = "done"

\* The rows of learning_sessions of the user with session_end null.
OpenSessions(uid) ==
  {id \in DOMAIN sessions : sessions[id].user_id = uid /\ sessions[id].session_end = NoTime}

\* Lines 97-98: order by session_start descending, limit 1.
MostRecent(ids) ==
  {id \in ids : \A other \in ids : sessions[other].session_start <= sessions[id].session_start}

\* Lines 51-58 and 113-120: SecureSession built from a row.
SecureSessionOf(id) ==
  [id |-> id, userId |-> sessions[id].user_id, startTime |-> sessions[id].session_start,
   metadata |-> sessions[id].session_metadata]

CleanupSkipped(armed) == armed

\* Line 277: the cleanup of the timer effect clears the interval it armed.
Cleanup(armed) == IF armed > 0 THEN armed - 1 ELSE 0

\* Lines 271-279: the timer effect after a render in which session?.id or
\* validateSessionSecurity changed: cleanup of the previous run, then a new
\* interval if there is a session.
TimerEffect(armed, oldSession, oldUid, newSession, newUid) ==
  IF oldSession.id = newSession.id /\ oldSession.metadata = newSession.metadata
     /\ oldUid = newUid
    THEN armed
    ELSE Cleanup(armed) + (IF newSession.id # 0 THEN 1 ELSE 0)

\* setSession(value) / setError(value) of a mounted hook, with the effects of the render
\* that follows; on an unmounted hook the state update is dropped.
SetState(session, error) ==
  IF sm.mounted
    THEN /\ sm' = [sm EXCEPT !.session = session, !.error = error]
         /\ intervals' = TimerEffect(intervals, sm.session, auth.userId, session, auth.userId)
    ELSE UNCHANGED <<sm, intervals>>

LogSurfacesThrow(outcome) == outcome = "throws"

\* Lines 125-138: the insert into audit_logs is awaited inside try/catch and
\* its result is not looked at: no outcome reaches the caller.
LogSurfaces(outcome) == FALSE

AuditOutcomes == {"ok", "error", "throws"}

\* SecurityManager.logSecurityEvent: the table after the write.
Logged(outcome, userId, action, resourceId) ==
  IF outcome = "ok"
    THEN auditLogs \cup {[user_id |-> userId, action |-> action, resource_id |-> resourceId]}
    ELSE auditLogs

\* Lines 72-76, 124-128, 173-177: the catch blocks set error and give up.
\* failed: the store or the network failed, rather than refused.
GiveUp(message, ret, failed) ==
  /\ SetState(sm.session, message)
  /\ task' = [task EXCEPT !.pc = "done", !.ret = ret, !.failed = @ \/ failed]

\* Lines 257-263: the init effect of a render with an authenticated user
\* calls getCurrentSession(); open is what the user has open at that moment.
InitTask(uid) ==
  [StartTask("init", "getCurrent", uid, 0, EmptyTable) EXCEPT !.open = OpenSessions(uid)]

\* Lines 88-131 and 259-263: the query of getCurrentSession answers, and
\* the init effect calls createSession() if it got no session.
GetCurrentSession ==
  /\ task.pc = "getCurrent"
  /\ \/ /\ SetState(sm.session, "")                       \* fetchError, then line 31
        /\ task' = [task EXCEPT !.pc = "createInsert", !.failed = TRUE]
     \/ /\ OpenSessions(task.uid) = {}                    \* PGRST116
        /\ SetState(sm.session, "")
        /\ task' = [task EXCEPT !.pc = "createInsert"]
     \/ \E id \in MostRecent(OpenSessions(task.uid)) :
          /\ SetState(SecureSessionOf(id), "")
          /\ task' = [task EXCEPT !.pc = "done", !.ret = "session", !.sid = id]
  /\ UNCHANGED <<sessions, auditLogs>>

\* security.ts lines 94-101: the row createSecureSession inserts.
NewSession(userId) ==
  [user_id |-> userId, session_start |-> now, session_end |-> NoTime,
   total_problems |-> 0,
   session_metadata |-> ("security_level" :> "standard") @@ ("created_by" :> "app")]

\* learning_sessions.user_id REFERENCES users(id)
SessionInsertAccepted(userId) == userId \in DOMAIN users

\* Lines 34-38 and security.ts lines 86-115: createSecureSession.
CreateInsert ==
  /\ task.pc = "createInsert"
  /\ IF ~isValidUUID(task.uid)
       THEN /\ GiveUp("Failed to create secure session", "null", FALSE)
            /\ UNCHANGED sessions
       ELSE \/ /\ GiveUp("Failed to create secure session", "null", TRUE)
               /\ UNCHANGED sessions
            \/ /\ ~SessionInsertAccepted(task.uid)
               /\ GiveUp("Failed to create secure session", "null", FALSE)
               /\ UNCHANGED sessions
            \/ /\ SessionInsertAccepted(task.uid)
               /\ LET id == Cardinality(DOMAIN sessions) + 1
                  IN  /\ sessions' = (id :> NewSession(task.uid)) @@ sessions
                      /\ task' = [task EXCEPT !.pc = "createFetch", !.sid = id,
                                               !.made = @ + 1]
               /\ UNCHANGED <<sm, intervals>>
  /\ UNCHANGED auditLogs

\* Lines 41-60: the created row is fetched and becomes session.
CreateFetch ==
  /\ task.pc = "createFetch"
  /\ \/ GiveUp("Failed to fetch session data", "null", TRUE)
     \/ /\ SetState(SecureSessionOf(task.sid), "")
        /\ task' = [task EXCEPT !.pc = "createAudit"]
  /\ UNCHANGED <<sessions, auditLogs>>

\* Lines 63-71: the audit event, then the session id is returned.
CreateAudit ==
  /\ task.pc = "createAudit"
  /\ \E outcome \in AuditOutcomes :
       /\ auditLogs' = Logged(outcome, task.uid, "session_created", task.sid)
       /\ IF LogSurfaces(outcome)
            THEN /\ SetState(sm.session, "Security logging failed")
                 /\ task' = [task EXCEPT !.pc = "done", !.ret = "null",
                                          !.auditFailed = TRUE]
            ELSE /\ UNCHANGED <<sm, intervals>>
                 /\ task' = [task EXCEPT !.pc = "done", !.ret = "session",
                                          !.auditFailed = outcome # "ok"]
  /\ UNCHANGED sessions

\* Lines 145-156: the update of endSession on the rows with the id and the user.
EndedRow(row, meta) ==
  [row EXCEPT !.session_end = now,
              !.session_metadata = ("ended_by" :> "user") @@ ("end_reason" :> "manual") @@ meta]

\* Lines 145-160: the update of endSession answers.
EndUpdate ==
  /\ task.pc = "endUpdate"
  /\ \/ /\ GiveUp("Failed to end session", "false", TRUE)
        /\ UNCHANGED sessions
     \/ /\ sessions' = [id \in DOMAIN sessions |->
                          IF id = task.sid /\ sessions[id].user_id = task.uid
                            THEN EndedRow(sessions[id], task.meta)
                            ELSE sessions[id]]
        /\ task' = [task EXCEPT !.pc = "endAudit"]
        /\ UNCHANGED <<sm, intervals>>
  /\ UNCHANGED auditLogs

\* Lines 163-172: the audit event, setSession(null), return true; called from
\* validateSessionSecurity (inner), the caller then returns false (line 246).
EndAudit ==
  /\ task.pc = "endAudit"
  /\ \E outcome \in AuditOutcomes :
       /\ auditLogs' = Logged(outcome, task.uid, "session_ended", task.sid)
       /\ IF LogSurfaces(outcome)
            THEN /\ SetState(sm.session, "Security logging failed")
                 /\ task' = [task EXCEPT !.pc = "done", !.ret = "false",
                                          !.auditFailed = TRUE]
            ELSE /\ SetState(NoSession, sm.error)
                 /\ task' = [task EXCEPT !.pc = "done",
                                          !.ret = IF task.inner THEN "false" ELSE "true",
                                          !.auditFailed = outcome # "ok"]
  /\ UNCHANGED sessions

\* Lines 194-216: the update of updateSessionActivity answers.
UpdateWrite ==
  /\ task.pc = "updateWrite"
  /\ \/ /\ task' = [task EXCEPT !.pc = "done", !.ret = "false", !.failed = TRUE]
        /\ UNCHANGED sessions
     \/ /\ sessions' = [id \in DOMAIN sessions |->
                          IF id = task.sid /\ sessions[id].user_id = task.uid
                            THEN [sessions[id] EXCEPT
                                    !.total_problems = 1,
                                    !.session_metadata = ("last_activity" :> now) @@ task.meta]
                            ELSE sessions[id]]
        /\ task' = [task EXCEPT !.pc = "done", !.ret = "true"]
  /\ UNCHANGED <<sm, intervals, auditLogs>>

\* Line 244: hoursSinceStart > 1
Expired(start) == now - start > hourMs

\* Lines 227-232: the row with the id and the user exists.
SessionFound ==
  IF task.sid \in DOMAIN sessions THEN sessions[task.sid].user_id = task.uid ELSE FALSE

\* Lines 227-249: the query of validateSessionSecurity answers.
ValQuery ==
  /\ task.pc = "valQuery"
  /\ \/ /\ SetState(NoSession, sm.error)                   \* error
        /\ task' = [task EXCEPT !.pc = "done", !.ret = "false", !.failed = TRUE]
     \/ /\ ~SessionFound
        /\ SetState(NoSession, sm.error)
        /\ task' = [task EXCEPT !.pc = "done", !.ret = "false"]
     \/ /\ SessionFound
        /\ IF Expired(sessions[task.sid].session_start)
             THEN /\ SetState(sm.session, "")              \* endSession, line 143
                  /\ task' = [task EXCEPT !.pc = "endUpdate", !.inner = TRUE,
                                           !.found = TRUE, !.expired = TRUE]
             ELSE /\ UNCHANGED <<sm, intervals>>
                  /\ task' = [task EXCEPT !.pc = "done", !.ret = "true", !.found = TRUE]
  /\ UNCHANGED <<sessions, auditLogs>>

\* What no step of the hook writes.
SessionFrame ==
  UNCHANGED <<serverVars, coord, loops, submitCount, lastWriter, denied,
              rateLimitCache, rateSeen, rateAnswer, permAnswer, uploads>>

\* AuthContext login, register, continueAsGuest: the user changes, the init
\* effect (lines 257-263) starts getCurrentSession and the timer effect re-runs.
SignIn(userId) ==
  /\ ~auth.isAuthenticated
  /\ Idle
  /\ Cardinality(DOMAIN sessions) < MaxSessions
  /\ auth' = [isAuthenticated |-> TRUE, userId |-> userId]
  /\ IF sm.mounted
       THEN /\ task' = InitTask(userId)
            /\ intervals' = TimerEffect(intervals, sm.session, auth.userId, sm.session, userId)
       ELSE UNCHANGED <<task, intervals>>
  /\ UNCHANGED <<sm, sessions, auditLogs, now>>

Login == \E rnd \in RandomDraws : SignIn(generateUUID(rnd))

ContinueAsGuest == SignIn(ClientDefaultUserId)

\* AuthContext logout (lines 255-291) dispatches LOGOUT; the init effect of the
\* hook takes its else branch (lines 264-267): setSession(null).
Logout ==
  /\ auth.isAuthenticated
  /\ auth' = Anonymous
  /\ IF sm.mounted
       THEN /\ sm' = [sm EXCEPT !.session = NoSession]
            /\ intervals' = TimerEffect(intervals, sm.session, auth.userId, NoSession, NoId)
       ELSE UNCHANGED <<sm, intervals>>
  /\ UNCHANGED <<task, sessions, auditLogs, now>>

\* The component using the hook is unmounted: the cleanups of its effects run.
Unmount ==
  /\ sm.mounted
  /\ sm' = [sm EXCEPT !.mounted = FALSE]
  /\ intervals' = Cleanup(intervals)
  /\ UNCHANGED <<auth, task, sessions, auditLogs, now>>

\* Lines 23-31: createSession() is called.
CallCreateSession ==
  /\ Idle /\ sm.mounted
  /\ Cardinality(DOMAIN sessions) < MaxSessions
  /\ IF auth.userId = NoId
       THEN /\ SetState(sm.session, "User not authenticated")
            /\ task' = [StartTask("create", "done", NoId, 0, EmptyTable) EXCEPT !.ret = "null"]
       ELSE /\ SetState(sm.session, "")
            /\ task' = [StartTask("create", "createInsert", auth.userId, 0, EmptyTable)
                          EXCEPT !.open = OpenSessions(auth.userId)]
  /\ UNCHANGED <<auth, sessions, auditLogs, now>>

\* Lines 135-143: endSession(sessionId?) is called; 0 stands for no argument.
CallEndSession ==
  /\ Idle /\ sm.mounted
  /\ \E sessionId \in {0} \cup DOMAIN sessions :
       LET targetSessionId == IF sessionId # 0 THEN sessionId ELSE sm.session.id
       IN  IF targetSessionId = 0 \/ auth.userId = NoId
             THEN /\ task' = [StartTask("end", "done", auth.userId, targetSessionId, EmptyTable)
                                EXCEPT !.ret = "false"]
                  /\ UNCHANGED <<sm, intervals>>
             ELSE /\ SetState(sm.session, "")
                  /\ task' = StartTask("end", "endUpdate", auth.userId, targetSessionId,
                                       sm.session.metadata)
  /\ UNCHANGED <<auth, sessions, auditLogs, now>>

\* Lines 182-191: updateSessionActivity(activity) is called.
CallUpdateActivity ==
  /\ Idle /\ sm.mounted
  /\ task' = IF sm.session.id = 0 \/ auth.userId = NoId
               THEN [StartTask("update", "done", auth.userId, 0, EmptyTable)
                       EXCEPT !.ret = "false"]
               ELSE StartTask("update", "updateWrite", auth.userId, sm.session.id,
                              sm.session.metadata)
  /\ UNCHANGED <<auth, sm, intervals, sessions, auditLogs, now>>

\* Lines 220-223: validateSessionSecurity() starts.
Validate(kind) ==
  /\ Idle
  /\ task' = IF sm.session.id = 0 \/ auth.userId = NoId
               THEN [StartTask(kind, "done", auth.userId, 0, EmptyTable)
                       EXCEPT !.ret = "false"]
               ELSE StartTask(kind, "valQuery", auth.userId, sm.session.id,
                              sm.session.metadata)
  /\ UNCHANGED <<auth, sm, intervals, sessions, auditLogs, now>>

CallValidate == sm.mounted /\ Validate("validate")

\* Lines 273-275: an armed interval fires.
IntervalTick == intervals > 0 /\ Validate("tick")

\* The instants of the session clock: around the hour boundaries.
SessionTimes == {0} \cup {w * hourMs + j : w \in 1..MaxHours, j \in 0..MaxJitter}

AdvanceSession ==
  /\ \E t \in SessionTimes : t > now /\ now' = t
  /\ UNCHANGED <<auth, sm, intervals, task, sessions, auditLogs>>

-----------------------------------------------------------------------------
(* MediaUploadManager: uploadFile and deleteFile *)

\* The identifier of uploadFile, line 246.
UploadRateKey(userId) == <<"upload_", userId>>

\* The count of the identifier's bucket, 0 without one.
RateCount(identifier) ==
  IF identifier \in DOMAIN rateLimitCache THEN rateLimitCache[identifier].count ELSE 0

\* A call that has returned with the result ret.
Returned(kind, userId, uploadId, ret) ==
  [StartTask(kind, "done", userId, 0, EmptyTable) EXCEPT !.upload = uploadId, !.ret = ret]

\* security.ts lines 225-254: uploadFile is called; the checks before the
\* try block. fileValid is the answer of validateFileUpload, permFailed a
\* failing profile query.
CallUploadFile(userId, fileValid, permFailed, rnd) ==
  LET uploadId == generateUUID(rnd)
      identifier == UploadRateKey(userId)
      checked == /\ isValidUUID(userId)
                 /\ fileValid
                 /\ validateUserPermissionQuery(userId, "upload_media", permFailed)
  IN  /\ Idle
      /\ IF RateLimitExhausted(identifier)
           THEN rateSeen[identifier].calls < maxRequestsPerMinute + MaxUploads
           ELSE RateCount(identifier) < MaxUploads
      /\ IF checked
           THEN /\ checkRateLimit(identifier)
                /\ task' = IF RateLimitExhausted(identifier)
                             THEN Returned("upload", userId, NoId, "Rate limit exceeded")
                             ELSE [StartTask("upload", "uploadInsert", userId, 0, EmptyTable)
                                     EXCEPT !.upload = uploadId]
           ELSE /\ task' = Returned("upload", userId, NoId,
                                    IF ~isValidUUID(userId) THEN "Invalid user ID"
                                    ELSE IF ~fileValid THEN "File not allowed"
                                    ELSE "Insufficient permissions")
                /\ UNCHANGED gatewayVars
      /\ UNCHANGED uploads

\* security.ts lines 257-273: the upload record is inserted; id is the
\* primary key and user_id REFERENCES users(id).
UploadInsert ==
  /\ task.pc = "uploadInsert"
  /\ \/ /\ task' = [task EXCEPT !.pc = "done", !.ret = "Failed to create upload record",
                                 !.failed = TRUE]
        /\ UNCHANGED uploads
     \/ /\ task.upload \in DOMAIN uploads \/ task.uid \notin DOMAIN users
        /\ task' = [task EXCEPT !.pc = "done", !.ret = "Failed to create upload record"]
        /\ UNCHANGED uploads
     \/ /\ task.upload \notin DOMAIN uploads
        /\ task.uid \in DOMAIN users
        /\ uploads' = (task.upload :> [user_id |-> task.uid, upload_status |-> "pending",
                                        stored |-> FALSE]) @@ uploads
        /\ task' = [task EXCEPT !.pc = "uploadStorage"]

StoreOutcomes == {"ok", "error", "throws"}

\* security.ts lines 276-299 and 321-324: the file goes to storage and the
\* status of the record follows; the answer of the status update is not
\* looked at, a call that throws ends in the catch block.
UploadStorage ==
  /\ task.pc = "uploadStorage"
  /\ \E storage \in StoreOutcomes, update \in StoreOutcomes :
       LET id == task.upload
           status == IF storage = "ok" THEN "completed" ELSE "failed"
           written == [uploads EXCEPT ![id].stored = (storage = "ok"),
                                      ![id].upload_status =
                                         IF update = "ok" THEN status ELSE @]
       IN  IF storage = "throws"
             THEN /\ uploads' = uploads
                  /\ task' = [task EXCEPT !.pc = "done", !.ret = "Upload failed",
                                           !.failed = TRUE]
             ELSE /\ uploads' = written
                  /\ task' =
                       IF update = "throws"
                         THEN [task EXCEPT !.pc = "done", !.ret = "Upload failed",
                                           !.failed = TRUE]
                       ELSE IF storage = "error"
                         THEN [task EXCEPT !.pc = "done", !.ret = "Failed to upload file",
                                           !.failed = TRUE]
                       ELSE [task EXCEPT !.pc = "uploadAudit", !.failed = update # "ok"]

\* security.ts lines 307-319: the audit event, then the result.
UploadAudit ==
  /\ task.pc = "uploadAudit"
  /\ \E outcome \in AuditOutcomes :
       /\ auditLogs' = Logged(outcome, task.uid, "file_upload", task.upload)
       /\ task' = IF LogSurfaces(outcome)
                    THEN [task EXCEPT !.pc = "done", !.ret = "Upload failed",
                                      !.auditFailed = TRUE]
                    ELSE [task EXCEPT !.pc = "done", !.ret = "success",
                                      !.auditFailed = outcome # "ok"]

\* security.ts lines 355-358: deleteFile is called.
CallDeleteFile(userId, uploadId) ==
  /\ Idle
  /\ task' = IF ~isValidUUID(userId) \/ ~isValidUUID(uploadId)
               THEN Returned("delete", userId, uploadId, "false")
               ELSE [StartTask("delete", "deleteFetch", userId, 0, EmptyTable)
                       EXCEPT !.upload = uploadId]
  /\ UNCHANGED uploads

\* security.ts lines 362-367: the record with the id and the user exists.
UploadFound ==
  IF task.upload \in DOMAIN uploads THEN uploads[task.upload].user_id = task.uid ELSE FALSE

\* security.ts lines 362-389 and 400-403: the record is fetched, the object
\* removed and the record marked deleted; neither answer stops the call.
DeleteFetch ==
  /\ task.pc = "deleteFetch"
  /\ \/ /\ task' = [task EXCEPT !.pc = "done", !.ret = "false", !.failed = TRUE]
        /\ UNCHANGED uploads
     \/ /\ ~UploadFound
        /\ task' = [task EXCEPT !.pc = "done", !.ret = "false"]
        /\ UNCHANGED uploads
     \/ /\ UploadFound
        /\ \E storage \in StoreOutcomes, update \in StoreOutcomes :
             LET id == task.upload
                 written == [uploads EXCEPT ![id].stored = IF storage = "ok" THEN FALSE ELSE @,
                                            ![id].upload_status =
                                               IF update = "ok" THEN "deleted" ELSE @]
             IN  IF storage = "throws"
                   THEN /\ uploads' = uploads
                        /\ task' = [task EXCEPT !.pc = "done", !.ret = "false",
                                                 !.failed = TRUE]
                   ELSE /\ uploads' = written
                        /\ task' =
                             IF update = "throws"
                               THEN [task EXCEPT !.pc = "done", !.ret = "false",
                                                 !.failed = TRUE]
                               ELSE [task EXCEPT !.pc = "deleteAudit",
                                                 !.failed = storage # "ok" \/ update # "ok"]

\* security.ts lines 392-399: the audit event, then true.
DeleteAudit ==
  /\ task.pc = "deleteAudit"
  /\ \E outcome \in AuditOutcomes :
       /\ auditLogs' = Logged(outcome, task.uid, "file_delete", task.upload)
       /\ task' = IF LogSurfaces(outcome)
                    THEN [task EXCEPT !.pc = "done", !.ret = "false", !.auditFailed = TRUE]
                    ELSE [task EXCEPT !.pc = "done", !.ret = "true",
                                      !.auditFailed = outcome # "ok"]

-----------------------------------------------------------------------------
(* Requests presented to the edge function directly *)

Req(type, title, text, image, voice, owner) ==
  [input_type |-> type, title |-> title, text_content |-> text, image_data |-> image,
   voice_url |-> voice, user_id |-> owner]

\* One well-formed request per input type, the text request with every owner
\* input, and one request per validation rule that the rule rejects.
Requests ==
  {Req("text", TitleT, Text2Plus2, "", "", o) : o \in OwnerInputs}
    \cup { Req("image", TitleT, <<>>, "b64", "", NoId),
           Req("voice", TitleT, <<>>, "", "url", NoId),
           Req("", TitleT, Text2Plus2, "", "", NoId),
           Req("text", <<>>, Text2Plus2, "", "", NoId),
           Req("text", TitleT, <<>>, "", "", MALFORMED_ID),
           Req("image", TitleT, Text2Plus2, "", "", NoId),
           Req("voice", TitleT, <<>>, "b64", "", NoId) }

\* Profiles present before the first request.
InitialProfiles ==
  { EmptyTable,
    (DEFAULT_USER_ID :> [is_guest |-> TRUE]) @@ (USER_A :> [is_guest |-> FALSE]) }

Environments ==
  [SUPABASE_URL : BOOLEAN, SUPABASE_SERVICE_ROLE_KEY : BOOLEAN, GOOGLE_API_KEY : BOOLEAN]

InitClient ==
  /\ auth \in Callers
  /\ coord = IdleCoord
  /\ loops = <<>>
  /\ submitCount = 0
  /\ lastWriter = 0
  /\ denied = <<>>

InitIds == idCall = NoIdCall

InitGateway ==
  /\ rateLimitCache = EmptyTable
  /\ now = 0
  /\ rateSeen = EmptyTable
  /\ rateAnswer = NoAnswer
  /\ permAnswer = NoAnswer

InitSession ==
  /\ sessions = EmptyTable
  /\ sm = [mounted |-> TRUE, session |-> NoSession, error |-> ""]
  /\ task = IdleTask
  /\ intervals = 0
  /\ auditLogs = {}
  /\ uploads = EmptyTable

InitServer ==
  /\ users \in InitialProfiles
  /\ submissions = EmptyTable
  /\ handler = [h \in Handlers |-> IdleHandler]

\* Slots are taken in order: which slot serves a request is immaterial.
Invoke(h) ==
  /\ IF h = 1 THEN TRUE ELSE handler[h - 1].pc # "idle"
  /\ \E req \in Requests, rnd \in RandomDraws : Receive(h, req, rnd)

Insert(h) == \E rnd \in RandomDraws : InsertSubmission(h, rnd)

\* The steps of an invocation after its request has arrived; texts are the
\* texts the provider may answer with.
HandlerStep(h, texts) ==
  \/ UserCheck(h)
  \/ CreateUser(h)
  \/ Insert(h)
  \/ ErrorUpdate(h)
  \/ CallProvider(h, texts)
  \/ FinalUpdate(h)

-----------------------------------------------------------------------------
(* Spec: the edge function serving direct requests *)

Init ==
  /\ env \in Environments
  /\ InitServer
  /\ InitClient
  /\ InitIds
  /\ auth = Anonymous
  /\ InitGateway
  /\ InitSession

Next ==
  \E h \in Handlers :
    /\ Invoke(h) \/ HandlerStep(h, ProviderTexts)
    /\ UNCHANGED <<clientVars, gatewayVars, sessionVars>>

Spec == Init /\ [][Next]_vars

-----------------------------------------------------------------------------
(* ClientSpec: the hook submitting to the edge function and polling *)

ClientInit ==
  /\ env = [SUPABASE_URL |-> TRUE, SUPABASE_SERVICE_ROLE_KEY |-> TRUE, GOOGLE_API_KEY |-> TRUE]
  /\ InitServer
  /\ InitClient
  /\ InitIds
  /\ InitGateway
  /\ InitSession

\* The timer of loop i fires and poll runs.
PollTick(i) ==
  /\ i \in 1..Len(loops)
  /\ poll(i)
  /\ UNCHANGED <<serverVars, gatewayVars, sessionVars>>

ClientNext ==
  \/ /\ \E data \in SubmissionData : submitProblem(data)
     /\ UNCHANGED <<serverVars, gatewayVars, sessionVars>>
  \/ /\ \E rnd \in RandomDraws : InvokeFunction(rnd)
     /\ UNCHANGED <<gatewayVars, sessionVars>>
  \/ /\ \E h \in Handlers : HandlerStep(h, {Text4})
     /\ UNCHANGED <<clientVars, gatewayVars, sessionVars>>
  \/ /\ Deliver
     /\ UNCHANGED <<gatewayVars, sessionVars>>
  \/ /\ AcknowledgeProcessing
     /\ UNCHANGED <<gatewayVars, sessionVars>>
  \/ \E i \in 1..Len(loops) : PollTick(i)

ClientSpec == ClientInit /\ [][ClientNext]_vars

\* Lines 246 and 257: a tick is scheduled with setTimeout, and a timer that
\* has been set fires.
ClientFairSpec == ClientSpec /\ \A i \in 1..MaxLoops : WF_vars(PollTick(i))

-----------------------------------------------------------------------------
(* ResubmitSpec: a logged-in caller submitting again while a poll is pending.
   The caller's rows are stored under the guest id, so each of its polls ends
   at the first fetch; every call may be answered with status processing. *)

ResubmitInit == ClientInit /\ auth = LoggedIn

ResubmitNext ==
  \/ ClientNext
  \/ /\ Acknowledge(NumHandlers)
     /\ UNCHANGED <<gatewayVars, sessionVars>>

ResubmitSpec == ResubmitInit /\ [][ResubmitNext]_vars

-----------------------------------------------------------------------------
(* ClearSpec: the guest submitting, polling and clearing the result *)

ClearInit == ClientInit /\ auth = Guest

ClearNext ==
  \/ ClientNext
  \/ /\ clearResult
     /\ UNCHANGED <<serverVars, gatewayVars, sessionVars>>

ClearSpec == ClearInit /\ [][ClearNext]_vars

-----------------------------------------------------------------------------
(* SubmitSpec: the guest submitting data whose payload does not go with its
   input type *)

SubmitInputs ==
  SubmissionData \cup
    { Data("image", TitleT, Text2Plus2, "", ""),
      Data("voice", TitleT, <<>>, "b64", ""),
      Data("text", TitleT, <<>>, "", "url") }

SubmitInit == ClientInit /\ auth = Guest

SubmitNext ==
  \/ /\ \E data \in SubmitInputs : submitProblem(data)
     /\ UNCHANGED <<serverVars, gatewayVars, sessionVars>>
  \/ /\ \E rnd \in RandomDraws : InvokeFunction(rnd)
     /\ UNCHANGED <<gatewayVars, sessionVars>>
  \/ /\ \E h \in Handlers : HandlerStep(h, {Text4})
     /\ UNCHANGED <<clientVars, gatewayVars, sessionVars>>
  \/ /\ Deliver
     /\ UNCHANGED <<gatewayVars, sessionVars>>

SubmitSpec == SubmitInit /\ [][SubmitNext]_vars

-----------------------------------------------------------------------------
(* RateLimitSpec: calls of checkRateLimit as the clock advances *)

RateKeys == {UploadRateKey(USER_A), SubmitRateKey(USER_A)}

\* The instants at which calls are made: around the window boundaries.
Times == {w * windowMs + j : w \in 0..MaxWindows, j \in 0..MaxJitter}

Advance ==
  /\ \E t \in Times : t > now /\ now' = t
  /\ UNCHANGED <<rateLimitCache, rateSeen, rateAnswer, permAnswer>>

RateCall ==
  \E identifier \in RateKeys :
    /\ IF StartsWindow(identifier)
         THEN TRUE
         ELSE rateSeen[identifier].calls < maxRequestsPerMinute + MaxRefused
    /\ checkRateLimit(identifier)

RateLimitInit ==
  /\ env = [SUPABASE_URL |-> TRUE, SUPABASE_SERVICE_ROLE_KEY |-> TRUE, GOOGLE_API_KEY |-> TRUE]
  /\ InitServer
  /\ users = EmptyTable
  /\ InitClient
  /\ InitIds
  /\ auth = Anonymous
  /\ InitGateway
  /\ InitSession

RateLimitNext ==
  /\ RateCall \/ Advance
  /\ UNCHANGED <<serverVars, clientVars, sessionVars>>

RateLimitSpec == RateLimitInit /\ [][RateLimitNext]_vars

-----------------------------------------------------------------------------
(* SessionSpec: the hook useSecureSession under sign-in, logout, unmount and
   the passing of time; one operation of the hook is in flight at a time *)

SessionProfiles ==
  (DEFAULT_USER_ID :> [is_guest |-> TRUE]) @@ (USER_A :> [is_guest |-> FALSE])

\* A row created by an earlier run of the app and never ended.
EarlierSession ==
  [user_id |-> USER_A, session_start |-> 0, session_end |-> NoTime, total_problems |-> 0,
   session_metadata |-> ("security_level" :> "standard") @@ ("created_by" :> "app")]

\* AuthContext initializeAuth (lines 133-152): nobody, or the stored user.
SessionInit ==
  /\ env = [SUPABASE_URL |-> TRUE, SUPABASE_SERVICE_ROLE_KEY |-> TRUE, GOOGLE_API_KEY |-> TRUE]
  /\ users = SessionProfiles
  /\ submissions = EmptyTable
  /\ handler = [h \in Handlers |-> IdleHandler]
  /\ InitClient
  /\ InitIds
  /\ auth \in {Anonymous, LoggedIn}
  /\ InitGateway
  /\ sessions \in {EmptyTable, 1 :> EarlierSession}
  /\ sm = [mounted |-> TRUE, session |-> NoSession, error |-> ""]
  /\ task = IF auth.isAuthenticated THEN InitTask(auth.userId) ELSE IdleTask
  /\ intervals = 0
  /\ auditLogs = {}
  /\ uploads = EmptyTable

SessionNext ==
  \/ GetCurrentSession /\ UNCHANGED <<auth, now>> /\ SessionFrame
  \/ CreateInsert /\ UNCHANGED <<auth, now>> /\ SessionFrame
  \/ CreateFetch /\ UNCHANGED <<auth, now>> /\ SessionFrame
  \/ CreateAudit /\ UNCHANGED <<auth, now>> /\ SessionFrame
  \/ EndUpdate /\ UNCHANGED <<auth, now>> /\ SessionFrame
  \/ EndAudit /\ UNCHANGED <<auth, now>> /\ SessionFrame
  \/ UpdateWrite /\ UNCHANGED <<auth, now>> /\ SessionFrame
  \/ ValQuery /\ UNCHANGED <<auth, now>> /\ SessionFrame
  \/ Login /\ SessionFrame
  \/ ContinueAsGuest /\ SessionFrame
  \/ Logout /\ SessionFrame
  \/ Unmount /\ SessionFrame
  \/ CallCreateSession /\ SessionFrame
  \/ CallEndSession /\ SessionFrame
  \/ CallUpdateActivity /\ SessionFrame
  \/ CallValidate /\ SessionFrame
  \/ IntervalTick /\ SessionFrame
  \/ AdvanceSession /\ SessionFrame

SessionSpec == SessionInit /\ [][SessionNext]_vars

-----------------------------------------------------------------------------
(* AuditSpec: the operations that write an audit event, for a signed-in user
   with a profile; one operation is in flight at a time *)

\* A bucket of uploadFile that has been used up within the current minute.
ExhaustedBucket ==
  UploadRateKey(USER_A) :> [count |-> maxRequestsPerMinute, resetTime |-> windowMs]

AuditInit ==
  /\ env = [SUPABASE_URL |-> TRUE, SUPABASE_SERVICE_ROLE_KEY |-> TRUE, GOOGLE_API_KEY |-> TRUE]
  /\ users = SessionProfiles
  /\ submissions = EmptyTable
  /\ handler = [h \in Handlers |-> IdleHandler]
  /\ InitClient
  /\ InitIds
  /\ auth = LoggedIn
  /\ now = 0
  /\ rateLimitCache \in {EmptyTable, ExhaustedBucket}
  /\ rateSeen = [identifier \in DOMAIN rateLimitCache |->
                   [start |-> 0, calls |-> rateLimitCache[identifier].count]]
  /\ rateAnswer = NoAnswer
  /\ permAnswer = NoAnswer
  /\ sessions = EmptyTable
  /\ sm = [mounted |-> TRUE, session |-> NoSession, error |-> ""]
  /\ task = InitTask(auth.userId)
  /\ intervals = 0
  /\ auditLogs = {}
  /\ uploads = EmptyTable

\* The userId and uploadId arguments of uploadFile and deleteFile.
UploadUsers == {USER_A, ClientDefaultUserId}

UploadIds == DOMAIN uploads \cup {generateUUID(rnd) : rnd \in RandomDraws} \cup {MALFORMED_ID}

\* What no step of the MediaUploadManager writes.
MediaFrame == UNCHANGED <<serverVars, clientVars, sessions, sm, intervals>>

AuditNext ==
  \/ GetCurrentSession /\ UNCHANGED <<auth, now>> /\ SessionFrame
  \/ CreateInsert /\ UNCHANGED <<auth, now>> /\ SessionFrame
  \/ CreateFetch /\ UNCHANGED <<auth, now>> /\ SessionFrame
  \/ CreateAudit /\ UNCHANGED <<auth, now>> /\ SessionFrame
  \/ EndUpdate /\ UNCHANGED <<auth, now>> /\ SessionFrame
  \/ EndAudit /\ UNCHANGED <<auth, now>> /\ SessionFrame
  \/ CallCreateSession /\ SessionFrame
  \/ CallEndSession /\ SessionFrame
  \/ /\ \E userId \in UploadUsers, fileValid \in BOOLEAN, permFailed \in BOOLEAN,
           rnd \in RandomDraws : CallUploadFile(userId, fileValid, permFailed, rnd)
     /\ UNCHANGED auditLogs /\ MediaFrame
  \/ UploadInsert /\ UNCHANGED <<gatewayVars, auditLogs>> /\ MediaFrame
  \/ UploadStorage /\ UNCHANGED <<gatewayVars, auditLogs>> /\ MediaFrame
  \/ UploadAudit /\ UNCHANGED <<gatewayVars, uploads>> /\ MediaFrame
  \/ /\ \E userId \in UploadUsers, uploadId \in UploadIds : CallDeleteFile(userId, uploadId)
     /\ UNCHANGED <<gatewayVars, auditLogs>> /\ MediaFrame
  \/ DeleteFetch /\ UNCHANGED <<gatewayVars, auditLogs>> /\ MediaFrame
  \/ DeleteAudit /\ UNCHANGED <<gatewayVars, uploads>> /\ MediaFrame

AuditSpec == AuditInit /\ [][AuditNext]_vars

-----------------------------------------------------------------------------
(* PermissionSpec: calls of validateUserPermission *)

PermissionProfiles ==
  { EmptyTable,
    (DEFAULT_USER_ID :> [is_guest |-> TRUE]),
    (DEFAULT_USER_ID :> [is_guest |-> TRUE]) @@ (USER_A :> [is_guest |-> FALSE]),
    (DEFAULT_USER_ID :> [is_guest |-> TRUE]) @@ (USER_A :> [is_guest |-> TRUE]) }

PermissionIds == {NoId, MALFORMED_ID, LEGACY_ID, DEFAULT_USER_ID, USER_A}

PermissionActions == {"read_public", "submit_problem", "upload_media"}

PermissionCall ==
  /\ \E userId \in PermissionIds, action \in PermissionActions, failed \in BOOLEAN :
       permAnswer' = [called |-> TRUE, userId |-> userId, action |-> action,
                      failed |-> failed,
                      allowed |-> validateUserPermissionQuery(userId, action, failed)]
  /\ UNCHANGED <<rateLimitCache, now, rateSeen, rateAnswer>>

PermissionInit ==
  /\ env = [SUPABASE_URL |-> TRUE, SUPABASE_SERVICE_ROLE_KEY |-> TRUE, GOOGLE_API_KEY |-> TRUE]
  /\ users \in PermissionProfiles
  /\ submissions = EmptyTable
  /\ handler = [h \in Handlers |-> IdleHandler]
  /\ InitClient
  /\ InitIds
  /\ auth = Anonymous
  /\ InitGateway
  /\ InitSession

PermissionNext ==
  /\ PermissionCall
  /\ UNCHANGED <<serverVars, clientVars, sessionVars>>

PermissionSpec == PermissionInit /\ [][PermissionNext]_vars

-----------------------------------------------------------------------------
(* Properties of the edge function *)

\* The invocation in slot h has answered.
Answered(h) == handler[h].pc = "done"

\* The row the invocation in slot h inserted.
RowOf(h) == submissions[handler[h].problemId]

\* C1 (as claimed): once the invocation has inserted its row, it never answers
\* while that row still has status processing: every way of finishing leaves
\* the row completed or error.
C1_TerminalAfterInsert ==
  \A h \in Handlers :
    (Answered(h) /\ handler[h].problemData) => RowOf(h).status \in Terminal

\* C2: the status of a row only moves forward.  A row is never removed, a row
\* that is completed or error is never written again, and a row that is
\* pending or processing either stays as it is or becomes completed or error.
C2_StatusMonotonic ==
  [][\A id \in DOMAIN submissions :
       /\ id \in DOMAIN submissions'
       /\ submissions[id].status \in Terminal => submissions'[id] = submissions[id]
       /\ submissions[id].status \in NonTerminal =>
            \/ submissions'[id] = submissions[id]
            \/ submissions'[id].status \in Terminal]_vars

\* One row is terminal and the other invocation has since written its own row.
C2_Witness ==
  \E h1, h2 \in Handlers :
    /\ h1 # h2
    /\ handler[h1].problemData /\ handler[h2].problemData
    /\ RowOf(h1).status = "completed"
    /\ RowOf(h2).status = "error"

\* What the handler's contract requires of a request, in the claim's words.
LacksRequired(req) ==
  \/ req.input_type = ""
  \/ req.title = <<>>
  \/ req.input_type = "text" /\ req.text_content = <<>>
  \/ req.input_type = "image" /\ req.image_data = ""
  \/ req.input_type = "voice" /\ req.voice_url = ""

\* C5: a request without input_type, without title, or without the payload of
\* its input type is answered with a failure, and the invocation inserts no
\* row, inserts no profile and does not call the provider.
C5_InvalidRejected ==
  \A h \in Handlers :
    (handler[h].pc # "idle" /\ LacksRequired(handler[h].req)) =>
      /\ Answered(h)
      /\ ~handler[h].resp.success
      /\ handler[h].resp.error # ""
      /\ handler[h].calls = {}
      /\ ~handler[h].problemData

\* An image request without image_data has been answered while the store is
\* configured.
C5_Witness ==
  \E h \in Handlers :
    /\ Answered(h)
    /\ env.SUPABASE_URL /\ env.SUPABASE_SERVICE_ROLE_KEY
    /\ handler[h].req.input_type = "image"
    /\ handler[h].req.image_data = ""
    /\ handler[h].resp.error = "image_data is required for image input type"

\* C6 (as claimed): when the request carries an owner id that fails the UUIDv4
\* validation, the owner of the inserted row is not that id and passes the
\* validation.
C6_InvalidOwnerReplaced ==
  \A h \in Handlers :
    (/\ handler[h].problemData
     /\ handler[h].req.user_id # NoId
     /\ ~isValidUUID(handler[h].req.user_id)) =>
      /\ RowOf(h).user_id # handler[h].req.user_id
      /\ isValidUUID(RowOf(h).user_id)

\* C7: every row has an owner, and the row of a request without owner id is
\* owned by the guest identifier, which is the one the client declares.
C7_OwnerAlwaysSet ==
  /\ DEFAULT_USER_ID = ClientDefaultUserId
  /\ \A id \in DOMAIN submissions : submissions[id].user_id # NoId
  /\ \A h \in Handlers :
       (handler[h].problemData /\ handler[h].req.user_id = NoId) =>
         RowOf(h).user_id = DEFAULT_USER_ID

\* A request without owner id has had its row inserted.
C7_Witness ==
  \E h \in Handlers :
    /\ handler[h].problemData
    /\ handler[h].req.user_id = NoId
    /\ RowOf(h).user_id = DEFAULT_USER_ID

\* C8 (as claimed): when the provider call fails, by a non-2xx response or by
\* a transport error, the row is error with a message and the answer is a
\* failure that names the row.
C8_ProviderFailurePersisted ==
  \A h \in Handlers :
    (Answered(h) /\ handler[h].provider \in {"non2xx", "transport"}) =>
      /\ RowOf(h).status = "error"
      /\ RowOf(h).error_message # ""
      /\ ~handler[h].resp.success
      /\ handler[h].resp.error # ""
      /\ handler[h].resp.problemId = handler[h].problemId

-----------------------------------------------------------------------------
(* Properties of the hook *)

\* C3: a poll loop started by an earlier submit is invalidated when a new
\* submit starts, so that result and error are only ever written on behalf of
\* the most recent submit: the last write to them belongs to the latest call.
C3_ResultOfLatestSubmit == lastWriter = submitCount

\* C4: a submit of a caller whom the gateway denies (no permission for
\* submit_problem, or rate-limit bucket exhausted) is rejected before the edge
\* function persists a submission row and before the provider is called.
C4_DeniedRejectedBeforePersistence ==
  \A k \in 1..Len(denied) :
    denied[k] =>
      /\ ~handler[k].problemData
      /\ "provider" \notin handler[k].calls

\* The tick of loop i that runs in this step.
Ticked(i) == loops[i].pc = "timer" /\ loops'[i] # loops[i]

\* C9: the tick that sees the row non-terminal for the 60th time in a row is
\* the 60th fetch of its loop, sets the error 'Problem processing timed out'
\* and schedules no further tick; no loop gives up earlier; and no tick writes
\* to the server, so the row is still as it was.
C9_TimeoutAfter60Ticks ==
  [][\A i \in 1..Len(loops) :
       Ticked(i) =>
         /\ submissions' = submissions /\ users' = users
         /\ (loops[i].attempts = maxAttempts - 1 /\ loops'[i].observed \in NonTerminal) =>
              /\ loops'[i].pc = "stopped"
              /\ loops'[i].timedOut
              /\ loops'[i].fetches = maxAttempts
              /\ coord'.error = "Problem processing timed out"
         /\ loops'[i].timedOut =>
              /\ loops[i].attempts = maxAttempts - 1
              /\ loops'[i].observed \in NonTerminal]_vars

\* A loop has timed out on a row that is still processing.
C9_Witness ==
  \E i \in 1..Len(loops) :
    /\ loops[i].timedOut
    /\ loops[i].pc = "stopped"
    /\ loops[i].fetches = maxAttempts
    /\ coord.error = "Problem processing timed out"
    /\ submissions[loops[i].problemId].status = "processing"

\* No tick of loop i is scheduled.
Stopped(i) == loops[i].pc = "stopped"

\* C10: a poll loop issues at most 60 fetches; once a tick has seen status
\* completed or error, or its fetch has failed, the loop is stopped; a stopped
\* loop never runs again; and every tick either stops the loop or uses up one
\* of its attempts, so that with timers firing every loop ends up stopped.
C10_PollLoopTerminates ==
  /\ <>[](\A i \in 1..Len(loops) : Stopped(i))
  /\ [](\A i \in 1..Len(loops) :
         /\ loops[i].fetches <= maxAttempts
         /\ loops[i].attempts <= maxAttempts
         /\ loops[i].observed \in Terminal \cup {"fetchError"} => Stopped(i))
  /\ [][\A i \in 1..Len(loops) :
         /\ Stopped(i) => loops'[i] = loops[i]
         /\ Ticked(i) => \/ loops'[i].pc = "stopped"
                         \/ loops'[i].attempts = loops[i].attempts + 1]_vars

\* A loop has stopped on a terminal status after more than one fetch.
C10_Witness ==
  \E i \in 1..Len(loops) :
    /\ Stopped(i)
    /\ loops[i].observed \in Terminal
    /\ loops[i].fetches > 1

\* The row of loop i's problem belongs to somebody other than the caller.
OthersRow(i) ==
  /\ loops[i].problemId \in DOMAIN submissions
  /\ submissions[loops[i].problemId].user_id # auth.userId

\* C11: for a caller authenticated with id U, a tick that sets result from a
\* row does so only from a row owned by U; a tick whose row belongs to another
\* owner leaves result alone and reports 'Failed to check problem status'.
C11_NoCrossOwnerResult ==
  [][\A i \in 1..Len(loops) :
       (Ticked(i) /\ auth.isAuthenticated /\ auth.userId # NoId) =>
         /\ loops'[i].observed \in Terminal \cup NonTerminal =>
              ~OthersRow(i) /\ coord'.result.id = loops[i].problemId
         /\ OthersRow(i) =>
              /\ coord'.result = coord.result
              /\ loops'[i].observed = "fetchError"
              /\ coord'.error = "Failed to check problem status"]_vars

\* An authenticated caller's loop has had its fetch of another owner's row
\* refused, and no result was set from it.
C11_Witness ==
  \E i \in 1..Len(loops) :
    /\ auth.isAuthenticated
    /\ OthersRow(i)
    /\ Stopped(i)
    /\ loops[i].observed = "fetchError"
    /\ coord.error = "Failed to check problem status"
    /\ coord.result.id = loops[i].problemId
    /\ coord.result.status = "processing"

\* The loops with a tick scheduled or running.
Scheduled == {i \in 1..Len(loops) : loops[i].pc = "timer"}

\* C20: polling of one coordinator never runs concurrently with itself: over
\* any sequence of submits at most one poll tick is scheduled or in flight.
C20_OnePollAtATime == Cardinality(Scheduled) <= 1

-----------------------------------------------------------------------------
(* Properties of the security gateway *)

\* This step is a call of checkRateLimit for the identifier.
RateCalled(identifier) ==
  /\ identifier \in DOMAIN rateSeen'
  /\ identifier \in DOMAIN rateSeen => rateSeen'[identifier] # rateSeen[identifier]

\* C12: checkRateLimit is a fixed-window counter per key with limit 30 and a
\* window of 60 s: a call is allowed exactly when it starts a window (the key's
\* first call, or the first one after its window has elapsed) or fewer than 30
\* calls were made for the key in the current window; a call that starts a
\* window leaves the key's count at 1.
C12_FixedWindowCounter ==
  [][\A identifier \in RateKeys :
       RateCalled(identifier) =>
         /\ rateAnswer' =
              [called |-> TRUE, identifier |-> identifier,
               allowed |-> IF StartsWindow(identifier)
                             THEN TRUE
                             ELSE rateSeen[identifier].calls < maxRequestsPerMinute]
         /\ StartsWindow(identifier) => rateLimitCache'[identifier].count = 1]_vars

\* A key's 31st call in a window was refused, in a window after its first.
C12_Witness ==
  \E identifier \in RateKeys :
    /\ identifier \in DOMAIN rateSeen
    /\ rateSeen[identifier].start > 0
    /\ rateSeen[identifier].calls = maxRequestsPerMinute + 1
    /\ rateAnswer = [called |-> TRUE, identifier |-> identifier, allowed |-> FALSE]

\* C18: validateUserPermission denies an owner id that is malformed or has no
\* profile, and denies when the store answers an error; it allows a guest
\* profile exactly read_public and submit_problem, and any other profile
\* every action.
C18_PermissionTable ==
  permAnswer.called =>
    permAnswer.allowed =
      IF \/ ~isValidUUID(permAnswer.userId)
         \/ permAnswer.userId \notin DOMAIN users
         \/ permAnswer.failed
        THEN FALSE
      ELSE IF users[permAnswer.userId].is_guest
        THEN permAnswer.action \in {"read_public", "submit_problem"}
      ELSE TRUE

\* A guest profile was refused upload_media.
C18_Witness ==
  /\ permAnswer.called
  /\ ~permAnswer.failed
  /\ permAnswer.userId \in DOMAIN users
  /\ isValidUUID(permAnswer.userId)
  /\ users[permAnswer.userId].is_guest
  /\ permAnswer.action = "upload_media"
  /\ ~permAnswer.allowed

\* A call of validateSessionSecurity that found the row of its session returns.
ValidateReturns ==
  /\ task.pc # "done"
  /\ task'.pc = "done"
  /\ task'.kind \in {"validate", "tick"}
  /\ task'.found
  /\ sm.mounted

\* C13: validateSecurity on an existing current session returns failure and
\* leaves the session cleared (local session null, persisted session ended)
\* when now - start_time > 60 minutes, also when the store write of ending
\* the session fails; otherwise it returns success and changes nothing.
C13_ValidateClearsExpired ==
  [][ValidateReturns =>
       IF task'.expired
         THEN /\ task'.ret = "false"
              /\ sm'.session = NoSession
              /\ sessions'[task'.sid].session_end # NoTime
         ELSE /\ task'.ret = "true"
              /\ sm' = sm
              /\ sessions' = sessions]_vars

\* C13 without the last clause: as long as the store write of ending the
\* session succeeds.
C13_ValidateClearsExpiredUnlessWriteFails ==
  [][(ValidateReturns /\ ~task'.failed) =>
       IF task'.expired
         THEN /\ task'.ret = "false"
              /\ sm'.session = NoSession
              /\ sessions'[task'.sid].session_end # NoTime
         ELSE /\ task'.ret = "true"
              /\ sm' = sm
              /\ sessions' = sessions]_vars

\* C14: after the owner logs out, the owner's session that was current has
\* end_time set in the store.
C14_SessionEndedOnLogout ==
  [][(auth.isAuthenticated /\ ~auth'.isAuthenticated /\ sm.session.id # 0) =>
       sessions'[sm.session.id].session_end # NoTime]_vars

\* The update of endSession is applied to the row of its session.
EndSessionWrites ==
  /\ task.pc = "endUpdate"
  /\ task'.pc = "endAudit"
  /\ task.sid \in DOMAIN sessions
  /\ sessions[task.sid].user_id = task.uid

\* C17: endSession sets end_time and merges {ended_by, end_reason} into the
\* stored metadata: every key the persisted session held before the call is
\* still present with the same value afterwards.
C17_EndSessionKeepsMetadata ==
  [][EndSessionWrites =>
       LET before == sessions[task.sid].session_metadata
           after == sessions'[task.sid].session_metadata
       IN  /\ sessions'[task.sid].session_end = now
           /\ {"ended_by", "end_reason"} \subseteq DOMAIN after
           /\ after["ended_by"] = "user"
           /\ after["end_reason"] = "manual"
           /\ \A k \in DOMAIN before \ {"ended_by", "end_reason"} :
                k \in DOMAIN after /\ after[k] = before[k]]_vars

\* The work the init effect started on authentication comes to its end, the
\* same user still signed in.
InitReturns ==
  /\ task.pc # "done"
  /\ task'.pc = "done"
  /\ task'.kind = "init"
  /\ sm.mounted
  /\ auth.userId = task.uid

\* What C15 asks of the end of that work.
ResumedOrCreated ==
  IF task'.open # {}
    THEN /\ task'.made = 0
         /\ sm'.session.id \in task'.open
         /\ \A other \in task'.open :
              sessions[other].session_start <= sessions[sm'.session.id].session_start
    ELSE /\ task'.made = 1
         /\ Cardinality(OpenSessions(task.uid)) = 1

\* C15: on authentication, an open session of the owner becomes the current
\* session and createSession is not called; only if the owner has no open
\* session is a new one created, and then exactly one.
C15_ResumeOrCreate == [][InitReturns => ResumedOrCreated]_vars

\* C15 for the runs in which no call to the store failed.
C15_ResumeOrCreateUnlessStoreFails ==
  [][(InitReturns /\ ~task'.failed) => ResumedOrCreated]_vars

\* An interval fires: validateSessionSecurity is started by the timer.
TickFires ==
  /\ task.pc = "done"
  /\ task' # task
  /\ task'.kind = "tick"

AuditWritten ==
  /\ task.pc \in {"createAudit", "endAudit", "uploadAudit", "deleteAudit"}
  /\ task'.pc = "done"

\* C19: a failure of the audit write is never surfaced: createSession,
\* endSession, uploadFile and deleteFile return the result, and leave the
\* session and upload state, of a run whose audit write succeeded.
C19_AuditFailureSwallowed ==
  [][AuditWritten =>
       /\ task'.ret = CASE task.pc = "createAudit" -> "session"
                         [] task.pc = "endAudit" -> "true"
                         [] task.pc = "uploadAudit" -> "success"
                         [] task.pc = "deleteAudit" -> "true"
       /\ sessions' = sessions
       /\ uploads' = uploads
       /\ sm' = IF task.pc = "endAudit" THEN [sm EXCEPT !.session = NoSession] ELSE sm]_vars

\* A session was created and a file uploaded and deleted, each with its
\* audit write failing: no event was stored and every call succeeded.
C19_Witness ==
  /\ task.kind = "delete"
  /\ task.pc = "done"
  /\ task.auditFailed
  /\ task.ret = "true"
  /\ uploads[task.upload].upload_status = "deleted"
  /\ sm.session.id # 0
  /\ auditLogs = {}

\* A step that changes result or error and is neither a submit, nor the
\* answer of the function, nor a poll tick: a call of clearResult.
ClearStep ==
  /\ coord' # coord
  /\ coord'.pc = coord.pc
  /\ loops' = loops
  /\ submitCount' = submitCount

\* C21: clear() sets the local result and error to null and changes nothing
\* else: no store write, every submission record is the same before and after.
C21_ClearLocalOnly ==
  [][ClearStep =>
       /\ coord'.result = NoResult
       /\ coord'.error = ""
       /\ coord'.isSubmitting = coord.isSubmitting
       /\ coord'.requestBody = coord.requestBody
       /\ UNCHANGED <<submissions, users, handler, auth, sessions, uploads, auditLogs,
                      rateLimitCache>>]_vars

\* The record is in the store with status error, a poll has shown it, and
\* result and error have been cleared since.
C21_Witness ==
  /\ coord.result = NoResult
  /\ coord.error = ""
  /\ coord.pc = "idle"
  /\ \E i \in 1..Len(loops) :
       /\ loops[i].pc = "stopped"
       /\ loops[i].observed = "error"
       /\ loops[i].gen = submitCount
       /\ submissions[loops[i].problemId].status = "error"

\* C22: submit(data) mirrors the server validation: data with a blank title, or
\* lacking the payload its input type requires, is refused by the hook
\* before any call to the auth provider or to the function; so a submit that
\* goes on to those calls carries a request the server validation accepts.
C22_ClientValidationMirrorsServer ==
  coord.pc # "idle" => ~LacksRequired(coord.requestBody)

\* C23: when an authenticated caller with owner id U submits through the hook
\* and the function accepts the request, the persisted submission's owner
\* is U, so that the caller's poll, filtered by U, finds it.
C23_OwnerIsCaller ==
  auth.isAuthenticated =>
    \A id \in DOMAIN submissions : submissions[id].user_id = auth.userId

\* Some line of the text, in lower case, contains one of the keywords.
Mentions(text, keywords) ==
  \E i \in 1..Len(split(text)), kw \in keywords :
    includes(toLowerCase(split(text)[i]), kw)

\* C24: every record with status completed has a non-empty solution, a topic
\* among Mathematics, Science, History, English, General, a difficulty among
\* easy, medium, hard and a non-empty tag list; with no line mentioning a tag
\* the tags are exactly general, learning, and with no subject or difficulty
\* keyword the topic is General and the difficulty medium.
C24_CompletedRecordShape ==
  \A id \in DOMAIN submissions :
    LET row == submissions[id]
    IN  row.status = "completed" =>
          /\ row.solution # <<>>
          /\ row.topic \in {"Mathematics", "Science", "History", "English", "General"}
          /\ row.difficulty \in {"easy", "medium", "hard"}
          /\ row.tags # <<>>
          /\ ~Mentions(row.solution, {kwTag}) => row.tags = DefaultTags
          /\ ~Mentions(row.solution, {kwSubject, kwArea}) => row.topic = "General"
          /\ ~Mentions(row.solution, {kwDifficulty}) => row.difficulty = "medium"

\* A record completed from a provider body without text, and one completed
\* from a text naming subject, difficulty and tags.
C24_Witness ==
  /\ \E id \in DOMAIN submissions :
       /\ submissions[id].status = "completed"
       /\ submissions[id].solution = NO_SOLUTION
       /\ submissions[id].tags = DefaultTags
  /\ \E id \in DOMAIN submissions :
       /\ submissions[id].status = "completed"
       /\ submissions[id].topic = "Mathematics"
       /\ submissions[id].difficulty = "hard"
       /\ Len(submissions[id].tags) = 2

\* uploadFile returns after it has inserted its record.
UploadReturns ==
  /\ task.pc \in {"uploadStorage", "uploadAudit"}
  /\ task'.pc = "done"

\* C25: every record uploadFile created has left the pending state when
\* uploadFile returns: completed if the blob upload succeeded, failed if not
\* (also when the blob upload or a status write raised), and uploadFile
\* returns success only if the record is completed.
C25_UploadLeavesPending ==
  [][UploadReturns =>
       LET row == uploads'[task.upload]
       IN  /\ row.upload_status # "pending"
           /\ row.upload_status = IF row.stored THEN "completed" ELSE "failed"
           /\ task'.ret = "success" => row.upload_status = "completed"]_vars

\* Invocation h finishes its profile lookup or its profile insert.
ProfileStep(h) ==
  /\ handler[h].pc \in {"userCheck", "createUser"}
  /\ handler'[h].pc # handler[h].pc

\* The profile step inserts no profile when the owner has one and none but
\* the owner's otherwise.
ProfileIdempotent(h) ==
  /\ handler[h].userId \in DOMAIN users => users' = users
  /\ DOMAIN users' \subseteq DOMAIN users \cup {handler[h].userId}
  /\ \A u \in DOMAIN users : users'[u] = users[u]

\* The store takes the submission record of invocation h, as it does after
\* a profile step that succeeded.
RecordPersistable(h) ==
  \E rnd \in RandomDraws :
    InsertAccepted(submissions', users', generateUUID(rnd),
                   NewSubmission(handler'[h].req, handler'[h].userId))

\* C26: ensuring the owner profile is idempotent and non-fatal: an existing
\* profile is not inserted again, an absent one is inserted at most once, and
\* when the lookup or the insert fails the submission record is persisted and
\* processed as if the profile step had succeeded.
C26_ProfileIdempotentNonFatal ==
  [][\A h \in Handlers :
       ProfileStep(h) =>
         /\ ProfileIdempotent(h)
         /\ handler'[h].pc = "insert" => RecordPersistable(h)]_vars

-----------------------------------------------------------------------------
(* IdSpec: createNamespacedUUID called repeatedly on one input *)

\* Longest generated value.
MaxValueLen == 3

\* Number of calls made on one input.
MaxCalls == 2

\* utils/uuid line 100: 'user', 'session', 'guest'
Namespaces == {<<"u", "s", "e", "r">>, <<"s", "e", "s", "s", "i", "o", "n">>, <<"g", "u", "e", "s", "t">>}

\* utils/uuid lines 113-118: the example ids, and short strings besides.
Values ==
  {<<"u", "s", "e", "r", "_", "1", "2", "3">>, <<"g", "u", "e", "s", "t", "_", "4", "5", "6">>, <<"a", "d", "m", "i", "n", "_", "7", "8", "9">>, <<"t", "e", "s", "t", "-", "u", "s", "e", "r", "-", "i", "d">>}
  \cup UNION {[1..n -> {"z", "0", "_"}] : n \in 1..MaxValueLen}

IdInit ==
  /\ env = [SUPABASE_URL |-> TRUE, SUPABASE_SERVICE_ROLE_KEY |-> TRUE, GOOGLE_API_KEY |-> TRUE]
  /\ InitServer
  /\ InitClient
  /\ auth = Anonymous
  /\ InitGateway
  /\ InitSession
  /\ idCall \in {[namespace |-> n, value |-> v, returned |-> <<>>] :
                   n \in Namespaces, v \in Values}

\* One call createNamespacedUUID(namespace, value)
CallCreateNamespacedUUID ==
  /\ Len(idCall.returned) < MaxCalls
  /\ idCall' = [idCall EXCEPT
                  !.returned = Append(@, createNamespacedUUID(idCall.namespace, idCall.value))]

IdNext ==
  /\ CallCreateNamespacedUUID
  /\ UNCHANGED <<env, users, submissions, handler, clientVars, gatewayVars, sessionVars>>

IdSpec == IdInit /\ [][IdNext]_vars

\* The hash of the combined string namespace:value
CombinedHash == HashLoop(idCall.namespace \o <<":">> \o idCall.value, 1, Int32Zero)

C28_GuestIdAccepted ==
  ( /\ permAnswer.called
    /\ permAnswer.userId = ClientDefaultUserId
    /\ permAnswer.action \in {"submit_problem", "read_public"}
    /\ ~permAnswer.failed
    /\ ClientDefaultUserId \in DOMAIN users
    /\ users[ClientDefaultUserId].is_guest )
  => /\ isValidUUID(permAnswer.userId)
     /\ permAnswer.allowed

\* Every bucket of the rate limiter has a count from 1 to the limit.
BucketsInRange ==
  \A identifier \in DOMAIN rateLimitCache :
    /\ rateLimitCache[identifier].count >= 1
    /\ rateLimitCache[identifier].count <= maxRequestsPerMinute

\* A call of checkRateLimit for the identifier leaves every other bucket as
\* it was, and leaves its own bucket as it was when it answers false.
CallTouchesOwnBucket(identifier) ==
  /\ DOMAIN rateLimitCache' = DOMAIN rateLimitCache \cup {identifier}
  /\ \A other \in DOMAIN rateLimitCache \ {identifier} :
       rateLimitCache'[other] = rateLimitCache[other]
  /\ ~rateAnswer'.allowed => rateLimitCache' = rateLimitCache

\* C29: in every reachable state of the rate limiter each bucket has
\* 1 <= count <= limit; a call that is refused changes neither the count nor
\* the reset time of its bucket; and a call for one key never changes the
\* bucket of another key.
C29_BucketsBoundedAndIsolated ==
  /\ []BucketsInRange
  /\ [][\A identifier \in RateKeys :
          RateCalled(identifier) => CallTouchesOwnBucket(identifier)]_vars

\* A key was just refused with its bucket at the limit while the other key
\* has a bucket below the limit.
C29_Witness ==
  \E identifier \in RateKeys, other \in RateKeys :
    /\ other # identifier
    /\ rateAnswer = [called |-> TRUE, identifier |-> identifier, allowed |-> FALSE]
    /\ rateLimitCache[identifier].count = maxRequestsPerMinute
    /\ IF other \in DOMAIN rateLimitCache
         THEN rateLimitCache[other].count < maxRequestsPerMinute
         ELSE FALSE

\* C30: after any sequence of lifecycle initialisation, createSession,
\* getCurrentSession, validateSessionSecurity and endSession calls the table
\* learning_sessions holds at most one row of an owner with session_end null.
C30_AtMostOneOpenSession ==
  \A id \in DOMAIN sessions, other \in DOMAIN sessions :
    ( /\ sessions[id].user_id = sessions[other].user_id
      /\ sessions[id].session_end = NoTime
      /\ sessions[other].session_end = NoTime )
    => id = other

=============================================================================
